---- MODULE Spec2Model ----
(***************************************************************************)
(* Question-aware rule-based sentiment classifier of the survey dashboard  *)
(* (src/app.py): preprocess_response, detect_question_context, the signal  *)
(* detectors and new_contextual_sentiment.                                 *)
(*                                                                         *)
(* Text is modelled by TLA+ strings (Len, SubSeq and \o act on them as on  *)
(* sequences of characters).  A Python value handed to the classifier is a *)
(* record [kind, s]: kind "str" with its text s, or "none", "nan", "int"   *)
(* for None, float('nan') and a number.  Scores are IEEE-754 doubles,      *)
(* modelled exactly as sign and magnitude on the grid 2^-64 (see Floats).  *)
(***************************************************************************)
EXTENDS Integers, Sequences, FiniteSets, TLC

VARIABLES
    pc,          \* "idle" | "called" | "returned": position of the caller
    response,    \* the response argument of the call in progress
    question,    \* the question_text argument of the call in progress
    lib,         \* what TextBlob does in this call: a polarity in 1/1000, or LibRaises
    result,      \* the value returned by the call (NoResult before it returns)
    tables,      \* the module-level configuration lists of src/app.py
    seen,        \* history: results returned so far, per input
    ncalls,      \* history: number of calls recorded in seen
    workers,     \* per concurrent caller of analyze_sentiment: its frame
    frames,      \* load_data: the rows of raw-data.csv and the two frames returned
    generator,   \* a PresentationGenerator: its attributes and its last call
    summarizer   \* process_survey: the survey, the loop and the written output

vars == <<pc, response, question, lib, result, tables, seen, ncalls, workers,
          frames, generator, summarizer>>

----------------------------------------------------------------------------
(* Characters and Python string primitives *)

UpperChars == "ABCDEFGHIJKLMNOPQRSTUVWXYZ"
LowerChars == "abcdefghijklmnopqrstuvwxyz"
DigitChars == "0123456789"

CharAt(s, i) == SubSeq(s, i, i)

\* the set of the characters of s
CharsOf(s) == { CharAt(s, i) : i \in 1..Len(s) }

\* str.isspace, str.split, str.strip and regex \s for one character of a
\* str pattern: space, TAB, LF, VT, FF, CR and the separators 0x1c-0x1f (the
\* five strings after "\f" each hold that one control character).  The
\* Unicode spaces, such as NBSP, are not characters of a string of this
\* language
IsSpace(c) == c \in {" ", "\t", "\n", "\r", "\f", "", "", "", "", ""}

\* regex \w for one character: [a-zA-Z0-9_]
WordChars ==
    CharsOf(UpperChars) \cup CharsOf(LowerChars) \cup CharsOf(DigitChars) \cup {"_"}

IsWordChar(c) == c \in WordChars

\* str.lower for one character
LowerOf ==
    [c \in CharsOf(UpperChars) |->
        CharAt(LowerChars, CHOOSE j \in 1..Len(UpperChars) : CharAt(UpperChars, j) = c)]

LowerChar(c) == IF c \in DOMAIN LowerOf THEN LowerOf[c] ELSE c

RECURSIVE MapChars(_, _, _)
\* helper: apply a per-character conversion (selected by op) to s from index i on
MapChars(op, s, i) ==
    IF i > Len(s) THEN ""
    ELSE LET c == CharAt(s, i)
             d == IF op = "lower" THEN LowerChar(c)
                  ELSE IF c = "_" THEN " " ELSE c
         IN  d \o MapChars(op, s, i + 1)

\* str.lower()
Lower(s) == MapChars("lower", s, 1)

\* str.replace('_', ' ')
ReplaceUnderscores(s) == MapChars("replace", s, 1)

RECURSIVE SplitFrom(_, _, _)
\* str.split(): the maximal runs of non-whitespace characters of s, in order
\* (i is the scan position, cur the word being collected)
SplitFrom(s, i, cur) ==
    IF i > Len(s)
    THEN IF cur = "" THEN <<>> ELSE <<cur>>
    ELSE LET c == CharAt(s, i)
         IN  IF IsSpace(c)
             THEN (IF cur = "" THEN <<>> ELSE <<cur>>) \o SplitFrom(s, i + 1, "")
             ELSE SplitFrom(s, i + 1, cur \o c)

Split(s) == SplitFrom(s, 1, "")

RECURSIVE JoinFrom(_, _, _)
\* sep.join(words), from word i on
JoinFrom(sep, words, i) ==
    IF i > Len(words) THEN ""
    ELSE IF i = Len(words) THEN words[i]
    ELSE words[i] \o sep \o JoinFrom(sep, words, i + 1)

Join(sep, words) == JoinFrom(sep, words, 1)

\* Python's "needle in haystack" on strings
Contains(haystack, needle) ==
    \E i \in 1..(Len(haystack) - Len(needle) + 1) :
        SubSeq(haystack, i, i + Len(needle) - 1) = needle

----------------------------------------------------------------------------
(* The regular expressions of the pattern lists.  A pattern is a sequence  *)
(* of tokens: [t |-> "b"] is \b, [t |-> "lit", s |-> x] the literal x,     *)
(* [t |-> "s+"] is \s+, [t |-> "w+"] is \w+, [t |-> "opt", s |-> c] is c?  *)

B == [t |-> "b", s |-> ""]
Lit(x) == [t |-> "lit", s |-> x]
SPlus == [t |-> "s+", s |-> ""]
WPlus == [t |-> "w+", s |-> ""]
Opt(c) == [t |-> "opt", s |-> c]

\* \b at position pos (between characters pos-1 and pos of text)
AtWordBoundary(text, pos) ==
    LET before == pos > 1 /\ IsWordChar(CharAt(text, pos - 1))
        after  == pos <= Len(text) /\ IsWordChar(CharAt(text, pos))
    IN  before # after

RECURSIVE MatchFrom(_, _, _, _)
\* the tokens k.. of pat match text starting at position pos
MatchFrom(pat, k, text, pos) ==
    IF k > Len(pat) THEN TRUE
    ELSE LET tok == pat[k]
         IN  CASE tok.t = "b" ->
                    AtWordBoundary(text, pos) /\ MatchFrom(pat, k + 1, text, pos)
               [] tok.t = "lit" ->
                    /\ pos + Len(tok.s) - 1 <= Len(text)
                    /\ SubSeq(text, pos, pos + Len(tok.s) - 1) = tok.s
                    /\ MatchFrom(pat, k + 1, text, pos + Len(tok.s))
               [] tok.t = "opt" ->
                    \/ /\ pos <= Len(text)
                       /\ CharAt(text, pos) = tok.s
                       /\ MatchFrom(pat, k + 1, text, pos + 1)
                    \/ MatchFrom(pat, k + 1, text, pos)
               [] tok.t = "s+" ->
                    \E n \in 1..(Len(text) - pos + 1) :
                        /\ \A j \in pos..(pos + n - 1) : IsSpace(CharAt(text, j))
                        /\ MatchFrom(pat, k + 1, text, pos + n)
               [] tok.t = "w+" ->
                    \E n \in 1..(Len(text) - pos + 1) :
                        /\ \A j \in pos..(pos + n - 1) : IsWordChar(CharAt(text, j))
                        /\ MatchFrom(pat, k + 1, text, pos + n)

\* re.search(pat, text) is not None
ReSearch(pat, text) == \E pos \in 1..(Len(text) + 1) : MatchFrom(pat, 1, text, pos)

----------------------------------------------------------------------------
(* Floats.  sentiment_score is a Python float (IEEE-754 double, round to   *)
(* nearest, ties to even).  A double of this program is modelled exactly   *)
(* as [neg, mag]: a sign and a magnitude counted in units of 2^-64, the    *)
(* magnitude being a little-endian tuple of five 16-bit limbs.  Polarities *)
(* and the literals of the code are given in thousandths and converted by  *)
(* FromMilli as Python converts a decimal literal (correctly rounded).     *)

LimbBase == 2^16

ZeroMag == <<0, 0, 0, 0, 0>>

RECURSIVE AddFrom(_, _, _, _)
AddFrom(a, b, i, carry) ==
    IF i > Len(a) THEN <<>>
    ELSE LET t == a[i] + b[i] + carry
         IN  <<t % LimbBase>> \o AddFrom(a, b, i + 1, t \div LimbBase)

\* a + b on magnitudes
MagAdd(a, b) == AddFrom(a, b, 1, 0)

RECURSIVE SubFrom(_, _, _, _)
SubFrom(a, b, i, borrow) ==
    IF i > Len(a) THEN <<>>
    ELSE LET t == a[i] - b[i] - borrow
         IN  <<t % LimbBase>> \o SubFrom(a, b, i + 1, IF t < 0 THEN 1 ELSE 0)

\* a - b on magnitudes, for a >= b
MagSub(a, b) == SubFrom(a, b, 1, 0)

\* a < b on magnitudes
MagLess(a, b) ==
    \E i \in 1..Len(a) : a[i] < b[i] /\ \A j \in (i + 1)..Len(a) : a[j] = b[j]

\* number of significant bits of one limb
LimbBits(n) == CHOOSE k \in 0..16 : n < 2^k /\ (k = 0 \/ 2^(k - 1) <= n)

\* number of significant bits of a magnitude
MagBits(a) ==
    IF a = ZeroMag THEN 0
    ELSE LET top == CHOOSE i \in 1..Len(a) : a[i] # 0 /\ \A j \in (i + 1)..Len(a) : a[j] = 0
         IN  16 * (top - 1) + LimbBits(a[top])

\* round a magnitude to 53 significant bits, to nearest, ties to even;
\* sticky: the exact value lies strictly above a (bits lost before this step).
\* dir is the direction of the rounding: 1 up, -1 down, 0 exact.
Round53(a, sticky) ==
    LET bits == MagBits(a)
    IN  IF bits <= 53
        THEN [mag |-> a, dir |-> IF sticky THEN -1 ELSE 0]
        ELSE LET drop == bits - 53
                 p    == 2^drop
                 low  == a[1]
                 rem  == low % p
                 base == [a EXCEPT ![1] = low - rem]
                 up   == \/ 2 * rem > p
                         \/ 2 * rem = p /\ (sticky \/ (low \div p) % 2 = 1)
             IN  IF up
                 THEN [mag |-> MagAdd(base, <<p, 0, 0, 0, 0>>), dir |-> 1]
                 ELSE [mag |-> base, dir |-> IF rem > 0 \/ sticky THEN -1 ELSE 0]

RECURSIVE DivFrom(_, _, _, _)
\* long division of the limbs i..1 of a by d, rem carried in from above:
\* <<quotient limbs (little-endian), final remainder>>
DivFrom(a, d, i, rem) ==
    IF i = 0 THEN <<<<>>, rem>>
    ELSE LET cur  == rem * LimbBase + a[i]
             rest == DivFrom(a, d, i - 1, cur % d)
         IN  <<rest[1] \o <<cur \div d>>, rest[2]>>

\* the double nearest to m/1000, with the direction in which it was rounded
FromMilliDir(m) ==
    LET n == IF m < 0 THEN 0 - m ELSE m
        q == DivFrom(<<0, 0, 0, 0, n>>, 1000, 5, 0)
        r == Round53(q[1], q[2] # 0)
    IN  [neg |-> m < 0, mag |-> r.mag, dir |-> r.dir]

\* float literal / library polarity of m thousandths
FromMilli(m) == [neg |-> m < 0, mag |-> FromMilliDir(m).mag]

\* x + y on doubles
FAdd(x, y) ==
    IF x.neg = y.neg
    THEN LET r == Round53(MagAdd(x.mag, y.mag), FALSE).mag
         IN  [neg |-> x.neg /\ r # ZeroMag, mag |-> r]
    ELSE IF x.mag = y.mag THEN [neg |-> FALSE, mag |-> ZeroMag]
    ELSE IF MagLess(x.mag, y.mag)
         THEN [neg |-> y.neg, mag |-> Round53(MagSub(y.mag, x.mag), FALSE).mag]
         ELSE [neg |-> x.neg, mag |-> Round53(MagSub(x.mag, y.mag), FALSE).mag]

\* -x on doubles (zero keeps its sign: no negative zero arises in this program)
FNeg(x) == [neg |-> ~x.neg /\ x.mag # ZeroMag, mag |-> x.mag]

\* x - y on doubles
FSub(x, y) == FAdd(x, FNeg(y))

\* x < y on doubles
FLess(x, y) ==
    IF x.neg /\ ~y.neg THEN x.mag # ZeroMag \/ y.mag # ZeroMag
    ELSE IF ~x.neg /\ y.neg THEN FALSE
    ELSE IF x.neg THEN MagLess(y.mag, x.mag)
    ELSE MagLess(x.mag, y.mag)

\* one decimal digit as a character
Digit(d) == CharAt(DigitChars, d + 1)

\* f"{x:.2f}" for the double nearest to m/1000: the exact binary value is
\* rounded to two decimals, so a decimal tie is decided by the side on which
\* the double lies, and a tie that is exact in binary goes to the even digit
Fmt2(m) ==
    LET n  == IF m < 0 THEN 0 - m ELSE m
        h  == n \div 10
        r  == n % 10
        d  == FromMilliDir(n).dir
        c  == IF r > 5 \/ (r = 5 /\ (d = 1 \/ (d = 0 /\ h % 2 = 1))) THEN h + 1 ELSE h
    IN  (IF m < 0 THEN "-" ELSE "") \o Digit(c \div 100) \o "."
            \o Digit((c \div 10) % 10) \o Digit(c % 10)

----------------------------------------------------------------------------
(* Configuration tables of src/app.py (module-level, mutable Python lists) *)

QUESTION_CONTEXT ==
    [challenges     |-> <<"What are the biggest challenges", "operational challenges",
                          "biggest_challenges">>,
     stop_doing     |-> <<"What should we STOP doing", "stop doing", "STOP">>,
     start_doing    |-> <<"What should we START doing", "start doing", "START">>,
     human_value    |-> <<"uniquely human", "human value", "humans">>,
     team_culture   |-> <<"How would you describe", "team culture", "describe our team">>,
     ai_tools       |-> <<"AI tools", "currently using", "tools you use">>,
     future_mission |-> <<"future mission", "2 years", "mission">>]

GAP_PATTERNS ==
    << <<B, Lit("more"), SPlus, WPlus>>,
       <<B, Lit("better"), SPlus, WPlus>>,
       <<B, Lit("need"), SPlus, WPlus>>,
       <<B, Lit("need"), Opt("s"), SPlus, Lit("to"), B>>,
       <<B, Lit("should"), SPlus, WPlus>>,
       <<B, Lit("lacking"), B>>,
       <<B, Lit("not"), SPlus, Lit("enough"), B>>,
       <<B, Lit("insufficient"), B>>,
       <<B, Lit("without"), B>>,
       <<B, Lit("listen"), SPlus, Lit("more"), B>>,
       <<B, Lit("active"), SPlus, Lit("listening"), B>>,
       <<B, Lit("improve"), SPlus, WPlus>> >>

NEGATION_PATTERNS ==
    << <<B, Lit("no"), SPlus, WPlus>>,
       <<B, Lit("not"), B>>,
       <<B, Lit("don"), Opt("'"), Lit("t"), B>>,
       <<B, Lit("can"), Opt("'"), Lit("t"), B>>,
       <<B, Lit("never"), B>>,
       <<B, Lit("stop"), B>>,
       <<B, Lit("avoid"), B>> >>

PAIN_KEYWORDS ==
    <<"challenge", "problem", "issue", "struggle", "difficult", "hard",
      "frustrat", "pain", "blocker", "obstacle", "barrier", "constraint",
      "overwork", "stretch", "burn", "overwhelm", "stress", "complain",
      "incompetent", "poor", "bad", "lack", "miss", "unavail", "inadequate">>

STRENGTH_KEYWORDS ==
    <<"trust", "empathy", "connection", "relationship", "collaborat", "support",
      "innovat", "creative", "expert", "knowledge", "skill", "passion",
      "dedicated", "commit", "quality", "excellent", "strong", "effective">>

\* the module namespace right after import
InitTables ==
    [QUESTION_CONTEXT  |-> QUESTION_CONTEXT,
     GAP_PATTERNS      |-> GAP_PATTERNS,
     NEGATION_PATTERNS |-> NEGATION_PATTERNS,
     PAIN_KEYWORDS     |-> PAIN_KEYWORDS,
     STRENGTH_KEYWORDS |-> STRENGTH_KEYWORDS]

\* local tables of new_contextual_sentiment: <<phrase, polarity in 1/1000>>,
\* in the insertion order of the dict
TEXTBLOB_OVERRIDES ==
    << <<"knowledge base", 100>>,
       <<"base", 0>>,
       <<"poc", 0>>,
       <<"having a knowledge base", 200>> >>

UNCERTAINTY_PATTERNS ==
    << <<B, Lit("not sure"), B>>,
       <<B, Lit("unsure"), B>>,
       <<B, Lit("don"), Opt("'"), Lit("t know"), B>>,
       <<B, Lit("uncertain"), B>> >>

----------------------------------------------------------------------------
(* Python values *)

Str(x) == [kind |-> "str", s |-> x]
None == [kind |-> "none", s |-> ""]
NaN == [kind |-> "nan", s |-> ""]
Num == [kind |-> "int", s |-> ""]

\* pd.isna(v) for a scalar
IsNa(v) == v.kind \in {"none", "nan"}

\* what the TextBlob call does: return a polarity (1/1000) or raise
LibReturns(m) == [raises |-> FALSE, polarity |-> m]
LibRaises == [raises |-> TRUE, polarity |-> 0]

----------------------------------------------------------------------------
(* The functions of src/app.py *)

\* faulty variant: underscores are not turned into spaces
preprocess_response_keep_underscores(resp) ==
    IF IsNa(resp) \/ resp.kind # "str" THEN ""
    ELSE Join(" ", Split(resp.s))

\* preprocess_response: "" for a missing or non-string value, else the text
\* with underscores turned into spaces and whitespace runs collapsed
preprocess_response(resp) ==
    IF IsNa(resp) \/ resp.kind # "str" THEN ""
    ELSE Join(" ", Split(ReplaceUnderscores(resp.s)))

\* any(p.lower() in text for p in phrases)
AnyPhraseIn(phrases, text) ==
    \E i \in 1..Len(phrases) : Contains(text, Lower(phrases[i]))

\* faulty variant: the positive-bias groups are tested first
detect_question_context_positive_first(question_text) ==
    IF IsNa(question_text) THEN "neutral"
    ELSE IF question_text.kind # "str" THEN "error"
    ELSE LET question_lower == Lower(question_text.s)
             qc == tables.QUESTION_CONTEXT
         IN  IF AnyPhraseIn(qc.start_doing \o qc.human_value, question_lower)
             THEN "positive_bias"
             ELSE IF AnyPhraseIn(qc.challenges \o qc.stop_doing, question_lower)
             THEN "negative_bias"
             ELSE "neutral"

\* faulty variant: the operands of "in" are swapped, the question is looked
\* for in the phrase
detect_question_context_question_in_phrase(question_text) ==
    IF IsNa(question_text) THEN "neutral"
    ELSE IF question_text.kind # "str" THEN "error"
    ELSE LET question_lower == Lower(question_text.s)
             qc == tables.QUESTION_CONTEXT
             QuestionIn(phrases) ==
                 \E i \in 1..Len(phrases) : Contains(Lower(phrases[i]), question_lower)
         IN  IF QuestionIn(qc.challenges \o qc.stop_doing)
             THEN "negative_bias"
             ELSE IF QuestionIn(qc.start_doing \o qc.human_value)
             THEN "positive_bias"
             ELSE "neutral"

\* faulty variant: no pd.isna guard, .lower() is called on whatever comes
detect_question_context_unguarded(question_text) ==
    IF question_text.kind # "str" THEN "error"
    ELSE LET question_lower == Lower(question_text.s)
             qc == tables.QUESTION_CONTEXT
         IN  IF AnyPhraseIn(qc.challenges \o qc.stop_doing, question_lower)
             THEN "negative_bias"
             ELSE IF AnyPhraseIn(qc.start_doing \o qc.human_value, question_lower)
             THEN "positive_bias"
             ELSE "neutral"

\* detect_question_context: "negative_bias", "positive_bias" or "neutral";
\* "error" stands for the AttributeError of .lower() on a non-string
detect_question_context(question_text) ==
    IF IsNa(question_text) THEN "neutral"
    ELSE IF question_text.kind # "str" THEN "error"
    ELSE LET question_lower == Lower(question_text.s)
             qc == tables.QUESTION_CONTEXT
         IN  IF AnyPhraseIn(qc.challenges \o qc.stop_doing, question_lower)
             THEN "negative_bias"
             ELSE IF AnyPhraseIn(qc.start_doing \o qc.human_value, question_lower)
             THEN "positive_bias"
             ELSE "neutral"

\* any(re.search(p, text) for p in patterns)
AnyPatternMatches(patterns, text) ==
    \E i \in 1..Len(patterns) : ReSearch(patterns[i], text)

\* detect_gap_indicators (cleaned is a string)
detect_gap_indicators(cleaned) ==
    IF cleaned = "" THEN FALSE
    ELSE AnyPatternMatches(tables.GAP_PATTERNS, Lower(cleaned))

\* detect_negation (cleaned is a string)
detect_negation(cleaned) ==
    IF cleaned = "" THEN FALSE
    ELSE AnyPatternMatches(tables.NEGATION_PATTERNS, Lower(cleaned))

\* contains_keywords (cleaned is a string)
contains_keywords(cleaned, keywords) ==
    IF cleaned = "" THEN FALSE
    ELSE LET response_lower == Lower(cleaned)
         IN  \E i \in 1..Len(keywords) : Contains(response_lower, keywords[i])

Max(a, b) == IF a >= b THEN a ELSE b

\* the float literals of new_contextual_sentiment
Lit0_0 == FromMilli(0)
Lit0_1 == FromMilli(100)
Lit0_2 == FromMilli(200)
Lit0_3 == FromMilli(300)
Lit0_4 == FromMilli(400)
Lit0_5 == FromMilli(500)
Lit0_6 == FromMilli(600)

\* the value returned for an empty response (no score is computed)
EmptyResult ==
    [status |-> "ok", sentiment |-> "Neutral", confidence |-> 50,
     reasoning |-> "Empty response", reasoning_parts |-> <<>>,
     scored |-> FALSE, score |-> Lit0_0, base_polarity |-> 0,
     lib_called |-> FALSE]

\* the outcome of a call that raised
ErrorResult ==
    [status |-> "error", sentiment |-> "", confidence |-> 0,
     reasoning |-> "", reasoning_parts |-> <<>>,
     scored |-> FALSE, score |-> Lit0_0, base_polarity |-> 0,
     lib_called |-> FALSE]

\* faulty variant: the loop over the keys has no break, the last key found
\* in the response gives the baseline
baseline_polarity_last_key(response_lower, libcall) ==
    LET hits == { i \in 1..Len(TEXTBLOB_OVERRIDES) :
                    Contains(response_lower, TEXTBLOB_OVERRIDES[i][1]) }
        last == CHOOSE i \in hits : \A j \in hits : i >= j
    IN  IF hits # {}
        THEN [value |-> TEXTBLOB_OVERRIDES[last][2], lib_called |-> FALSE]
        ELSE [value |-> IF libcall.raises THEN 0 ELSE libcall.polarity,
              lib_called |-> TRUE]

\* faulty variant: a failure of the library gives -1.0 instead of 0.0
baseline_polarity_failure_negative(response_lower, libcall) ==
    LET hits == { i \in 1..Len(TEXTBLOB_OVERRIDES) :
                    Contains(response_lower, TEXTBLOB_OVERRIDES[i][1]) }
        first == CHOOSE i \in hits : \A j \in hits : i <= j
    IN  IF hits # {}
        THEN [value |-> TEXTBLOB_OVERRIDES[first][2], lib_called |-> FALSE]
        ELSE [value |-> IF libcall.raises THEN -1000 ELSE libcall.polarity,
              lib_called |-> TRUE]

\* lines 441-465: the baseline polarity (1/1000).  The first key of
\* TEXTBLOB_OVERRIDES (dict order) found in the response gives it; otherwise
\* TextBlob is called, and a failure of the call gives 0.0
baseline_polarity(response_lower, libcall) ==
    LET hits == { i \in 1..Len(TEXTBLOB_OVERRIDES) :
                    Contains(response_lower, TEXTBLOB_OVERRIDES[i][1]) }
        first == CHOOSE i \in hits : \A j \in hits : i <= j
    IN  IF hits # {}
        THEN [value |-> TEXTBLOB_OVERRIDES[first][2], lib_called |-> FALSE]
        ELSE [value |-> IF libcall.raises THEN 0 ELSE libcall.polarity,
              lib_called |-> TRUE]

(* The rules act on st = [score, confidence, parts]: sentiment_score (a     *)
(* double), confidence (1/100) and reasoning_parts.                         *)

\* faulty variant: sign slip, the negative context adds 0.4
rule1_context_negative_added(st, question_context) ==
    IF question_context = "negative_bias"
    THEN [score |-> FAdd(st.score, Lit0_4), confidence |-> 80,
          parts |-> Append(st.parts, "Question has negative context")]
    ELSE IF question_context = "positive_bias"
    THEN [score |-> FAdd(st.score, Lit0_5), confidence |-> 70,
          parts |-> Append(st.parts, "Question has positive context")]
    ELSE st

\* faulty variant: the adjustments of the two biased contexts are swapped
rule1_context_swapped(st, question_context) ==
    IF question_context = "negative_bias"
    THEN [score |-> FAdd(st.score, Lit0_5), confidence |-> 80,
          parts |-> Append(st.parts, "Question has negative context")]
    ELSE IF question_context = "positive_bias"
    THEN [score |-> FSub(st.score, Lit0_4), confidence |-> 70,
          parts |-> Append(st.parts, "Question has positive context")]
    ELSE st

\* RULE 1: question context bias
rule1_context(st, question_context) ==
    IF question_context = "negative_bias"
    THEN [score |-> FSub(st.score, Lit0_4), confidence |-> 80,
          parts |-> Append(st.parts, "Question has negative context")]
    ELSE IF question_context = "positive_bias"
    THEN [score |-> FAdd(st.score, Lit0_5), confidence |-> 70,
          parts |-> Append(st.parts, "Question has positive context")]
    ELSE st

\* RULE 2: gap/need indicators
rule2_gap(st, has_gap_indicator) ==
    IF has_gap_indicator
    THEN [score |-> FSub(st.score, Lit0_5), confidence |-> 90,
          parts |-> Append(st.parts, "Contains gap/need indicator (more/better/need/should)")]
    ELSE st

\* RULE 2.5: has_uncertainty
detect_uncertainty(response_lower) ==
    AnyPatternMatches(UNCERTAINTY_PATTERNS, response_lower)

\* faulty variant: "stop" cancels the negation in every question context
context_aware_negation_any_context(cleaned_response, response_lower, question_context, has_uncertainty) ==
    IF Contains(response_lower, "stop") /\ ~has_uncertainty
    THEN FALSE
    ELSE detect_negation(cleaned_response)

\* RULE 3: has_negation, with "stop" in a positive_bias question overridden
context_aware_negation(cleaned_response, response_lower, question_context, has_uncertainty) ==
    IF /\ question_context = "positive_bias"
       /\ Contains(response_lower, "stop")
       /\ ~has_uncertainty
    THEN FALSE
    ELSE detect_negation(cleaned_response)

\* faulty variant: two independent ifs, negation also acts after uncertainty
rule3_uncertainty_negation_both(st, has_uncertainty, has_negation) ==
    LET u == IF has_uncertainty
             THEN [score |-> Lit0_0, confidence |-> 85,
                   parts |-> Append(st.parts, "Expresses uncertainty")]
             ELSE st
    IN  IF has_negation
        THEN [score |-> FSub(u.score, Lit0_4), confidence |-> 85,
              parts |-> Append(u.parts, "Contains negation pattern (no/not/stop/can't)")]
        ELSE u

\* RULE 2.5 / RULE 3: uncertainty forces the score to 0.0, else negation
rule3_uncertainty_negation(st, has_uncertainty, has_negation) ==
    IF has_uncertainty
    THEN [score |-> Lit0_0, confidence |-> 85,
          parts |-> Append(st.parts, "Expresses uncertainty")]
    ELSE IF has_negation
    THEN [score |-> FSub(st.score, Lit0_4), confidence |-> 85,
          parts |-> Append(st.parts, "Contains negation pattern (no/not/stop/can't)")]
    ELSE st

\* RULE 4: pain point keywords
rule4_pain(st, cleaned_response) ==
    IF contains_keywords(cleaned_response, tables.PAIN_KEYWORDS)
    THEN [score |-> FSub(st.score, Lit0_3), confidence |-> Max(st.confidence, 80),
          parts |-> Append(st.parts, "Contains pain point keywords")]
    ELSE st

\* faulty variant: the strength bonus is given whether or not a gap matched
rule5_strength_ungated(st, cleaned_response, has_gap_indicator) ==
    IF contains_keywords(cleaned_response, tables.STRENGTH_KEYWORDS)
    THEN [score |-> FAdd(st.score, Lit0_3), confidence |-> Max(st.confidence, 80),
          parts |-> Append(st.parts, "Contains strength keywords")]
    ELSE st

\* faulty variant: the confidence is incremented like the score
rule5_strength_adds_confidence(st, cleaned_response, has_gap_indicator) ==
    IF contains_keywords(cleaned_response, tables.STRENGTH_KEYWORDS) /\ ~has_gap_indicator
    THEN [score |-> FAdd(st.score, Lit0_3), confidence |-> st.confidence + 30,
          parts |-> Append(st.parts, "Contains strength keywords")]
    ELSE st

\* RULE 5: strength keywords, but not if a gap indicator is present
rule5_strength(st, cleaned_response, has_gap_indicator) ==
    IF contains_keywords(cleaned_response, tables.STRENGTH_KEYWORDS) /\ ~has_gap_indicator
    THEN [score |-> FAdd(st.score, Lit0_3), confidence |-> Max(st.confidence, 80),
          parts |-> Append(st.parts, "Contains strength keywords")]
    ELSE st

\* faulty variant: a response of exactly three words is not short
rule6_short_under_three(st, cleaned_response, question_context) ==
    LET word_count == Len(Split(cleaned_response))
    IN  IF word_count < 3 /\ question_context = "negative_bias"
        THEN [st EXCEPT !.score = FSub(st.score, Lit0_2),
                        !.parts = Append(st.parts, "Short response in negative context")]
        ELSE IF word_count < 3 /\ question_context = "positive_bias"
        THEN [st EXCEPT !.score = FAdd(st.score, Lit0_2),
                        !.parts = Append(st.parts, "Short response in positive context")]
        ELSE st

\* faulty variant: the short-response nudge leaves no reasoning entry
rule6_short_silent(st, cleaned_response, question_context) ==
    LET word_count == Len(Split(cleaned_response))
    IN  IF word_count <= 3 /\ question_context = "negative_bias"
        THEN [st EXCEPT !.score = FSub(st.score, Lit0_2)]
        ELSE IF word_count <= 3 /\ question_context = "positive_bias"
        THEN [st EXCEPT !.score = FAdd(st.score, Lit0_2)]
        ELSE st

\* RULE 6: short responses (1-3 words) inherit more question context
rule6_short(st, cleaned_response, question_context) ==
    LET word_count == Len(Split(cleaned_response))
    IN  IF word_count <= 3 /\ question_context = "negative_bias"
        THEN [st EXCEPT !.score = FSub(st.score, Lit0_2),
                        !.parts = Append(st.parts, "Short response in negative context")]
        ELSE IF word_count <= 3 /\ question_context = "positive_bias"
        THEN [st EXCEPT !.score = FAdd(st.score, Lit0_2),
                        !.parts = Append(st.parts, "Short response in positive context")]
        ELSE st

\* faulty variant: only "listen" with "more" is overridden
rule7_listening_more_only(st, response_lower) ==
    IF Contains(response_lower, "listen") /\ Contains(response_lower, "more")
    THEN [score |-> FNeg(Lit0_6), confidence |-> 95,
          parts |-> Append(st.parts, "Listening gap indicator (listen more/active listening)")]
    ELSE st

\* RULE 7, first edge case: "listen more", "active listening"
rule7_listening(st, response_lower) ==
    IF /\ Contains(response_lower, "listen")
       /\ (Contains(response_lower, "more") \/ Contains(response_lower, "active"))
    THEN [score |-> FNeg(Lit0_6), confidence |-> 95,
          parts |-> Append(st.parts, "Listening gap indicator (listen more/active listening)")]
    ELSE st

\* faulty variant: the POC override ignores the question context
rule7_poc_any_context(st, response_lower, question_context) ==
    IF Contains(response_lower, "poc")
    THEN [score |-> FNeg(Lit0_5), confidence |-> 90,
          parts |-> Append(st.parts, "POC in negative context (pain point)")]
    ELSE st

\* RULE 7, second edge case: POC in a "stop doing" context
rule7_poc(st, response_lower, question_context) ==
    IF Contains(response_lower, "poc") /\ question_context = "negative_bias"
    THEN [score |-> FNeg(Lit0_5), confidence |-> 90,
          parts |-> Append(st.parts, "POC in negative context (pain point)")]
    ELSE st

\* faulty variant: the thresholds are inclusive
final_sentiment_inclusive(sentiment_score) ==
    IF ~FLess(sentiment_score, Lit0_1) THEN "Positive"
    ELSE IF ~FLess(FNeg(Lit0_1), sentiment_score) THEN "Negative"
    ELSE "Neutral"

\* final classification based on the adjusted score
final_sentiment(sentiment_score) ==
    IF FLess(Lit0_1, sentiment_score) THEN "Positive"
    ELSE IF FLess(sentiment_score, FNeg(Lit0_1)) THEN "Negative"
    ELSE "Neutral"

\* the reasoning summary: the fallback entry when no rule fired
build_reasoning(parts, base_polarity) ==
    IF parts = <<>> THEN <<"TextBlob polarity: " \o Fmt2(base_polarity)>> ELSE parts

\* faulty variant: the POC edge case is tested before the listening one
new_contextual_sentiment_poc_first(resp, question_text, question_context, libcall) ==
    LET cleaned_response == preprocess_response(resp)
    IN  IF cleaned_response = "" THEN EmptyResult
        ELSE
        LET response_lower == Lower(cleaned_response)
            base == baseline_polarity(response_lower, libcall)
            st0 == [score |-> FromMilli(base.value), confidence |-> 50, parts |-> <<>>]
            st1 == rule1_context(st0, question_context)
            has_gap_indicator == detect_gap_indicators(cleaned_response)
            st2 == rule2_gap(st1, has_gap_indicator)
            has_uncertainty == detect_uncertainty(response_lower)
            has_negation ==
                context_aware_negation(cleaned_response, response_lower,
                                       question_context, has_uncertainty)
            st3 == rule3_uncertainty_negation(st2, has_uncertainty, has_negation)
            st4 == rule4_pain(st3, cleaned_response)
            st5 == rule5_strength(st4, cleaned_response, has_gap_indicator)
            st6 == rule6_short(st5, cleaned_response, question_context)
            st7 == rule7_poc(st6, response_lower, question_context)
            st8 == rule7_listening(st7, response_lower)
            reasoning_parts == build_reasoning(st8.parts, base.value)
        IN  [status |-> "ok", sentiment |-> final_sentiment(st8.score),
             confidence |-> st8.confidence,
             reasoning |-> Join("; ", reasoning_parts), reasoning_parts |-> reasoning_parts,
             scored |-> TRUE, score |-> st8.score, base_polarity |-> base.value,
             lib_called |-> base.lib_called]

\* new_contextual_sentiment(response, question_text, question_context), with
\* libcall the behaviour of TextBlob(cleaned_response).sentiment.polarity.
\* sentiment_score, a local of the code, is kept in the result together with
\* base_polarity (1/1000) and the list reasoning_parts.
new_contextual_sentiment(resp, question_text, question_context, libcall) ==
    LET cleaned_response == preprocess_response(resp)
    IN  IF cleaned_response = "" THEN EmptyResult
        ELSE
        LET response_lower == Lower(cleaned_response)
            base == baseline_polarity(response_lower, libcall)
            st0 == [score |-> FromMilli(base.value), confidence |-> 50, parts |-> <<>>]
            st1 == rule1_context(st0, question_context)
            has_gap_indicator == detect_gap_indicators(cleaned_response)
            st2 == rule2_gap(st1, has_gap_indicator)
            has_uncertainty == detect_uncertainty(response_lower)
            has_negation ==
                context_aware_negation(cleaned_response, response_lower,
                                       question_context, has_uncertainty)
            st3 == rule3_uncertainty_negation(st2, has_uncertainty, has_negation)
            st4 == rule4_pain(st3, cleaned_response)
            st5 == rule5_strength(st4, cleaned_response, has_gap_indicator)
            st6 == rule6_short(st5, cleaned_response, question_context)
            st7 == rule7_listening(st6, response_lower)
            st8 == rule7_poc(st7, response_lower, question_context)
            reasoning_parts == build_reasoning(st8.parts, base.value)
        IN  [status |-> "ok", sentiment |-> final_sentiment(st8.score),
             confidence |-> st8.confidence,
             reasoning |-> Join("; ", reasoning_parts), reasoning_parts |-> reasoning_parts,
             scored |-> TRUE, score |-> st8.score, base_polarity |-> base.value,
             lib_called |-> base.lib_called]

\* the composition used by analyze_sentiment and by the test scripts:
\* detect_question_context, then new_contextual_sentiment with its result
Classify(resp, question_text, libcall) ==
    LET question_context == detect_question_context(question_text)
    IN  IF question_context = "error" THEN ErrorResult
        ELSE new_contextual_sentiment(resp, question_text, question_context, libcall)

----------------------------------------------------------------------------
(* Inputs of the calls *)

\* largest number of fragments a response text is made of
MaxFragments == 2

\* pieces of response text: gap words, strength and pain keywords, the
\* listening idiom, uncertainty, negation, override keys, neutral words
Fragments ==
    {"More", "collaboration", "Listen", "Active_listening", "POC", "Not sure",
     "stop", "problem", "having a", "knowledge base", "trust", "never",
     "nonstop"}

RECURSIVE Phrases(_)
\* the texts made of exactly n fragments separated by one space
Phrases(n) ==
    IF n = 1 THEN Fragments
    ELSE { p \o " " \o f : p \in Phrases(n - 1), f \in Fragments }

\* texts that are empty after preprocessing, or carry no letter
DegenerateTexts == {"", "   ", "__", " _\t", "?!"}

ResponseTexts == UNION { Phrases(n) : n \in 1..MaxFragments } \cup DegenerateTexts

Responses == { Str(t) : t \in ResponseTexts } \cup {None, NaN, Num}

Questions ==
    { Str(t) : t \in {"", "?!",
                      "What are the biggest challenges?",
                      "What should we START doing differently tomorrow?",
                      "What should we STOP doing and START doing?",
                      "How would you describe our team culture"} }
        \cup {None, NaN}

\* polarities (1/1000) the lexical library returns, within [-1, 1]
Polarities == {-1000, -105, 0, 100, 300, 1000}

LibCalls == { LibReturns(m) : m \in Polarities } \cup {LibRaises}

----------------------------------------------------------------------------
(* The state machine: a caller that classifies one response after another *)

NoResult ==
    [status |-> "none", sentiment |-> "", confidence |-> 0,
     reasoning |-> "", reasoning_parts |-> <<>>,
     scored |-> FALSE, score |-> Lit0_0, base_polarity |-> 0,
     lib_called |-> FALSE]

\* the frame of a caller of analyze_sentiment that has not called yet:
\* its arguments, its position, the loop index, the list sentiments and the
\* locals of the call of new_contextual_sentiment in progress
IdleFrame ==
    [pc |-> "idle", responses |-> <<>>, question_text |-> None,
     question_context |-> "neutral", lib |-> LibRaises, i |-> 1,
     sentiments |-> <<>>,
     st |-> [score |-> Lit0_0, confidence |-> 50, parts |-> <<>>],
     base |-> 0, has_gap_indicator |-> FALSE]

\* number of concurrent callers of analyze_sentiment
NumWorkers == 2

Workers == 1..NumWorkers

\* load_data has not run: there is no raw-data.csv yet, nothing returned
NoFrames ==
    [pc |-> "absent", columns |-> <<>>, rows |-> <<>>, blocks |-> 0,
     open_ended |-> <<>>, multiple_choice |-> <<>>]

\* self.data_sources has no 'raw_data'
NoRawData == [kind |-> "none", columns |-> <<>>, rows |-> <<>>]

\* no PresentationGenerator has been constructed
NoGenerator ==
    [constructed |-> FALSE, output_format |-> "", sections |-> <<>>,
     data_sources |-> {}, raw_data |-> NoRawData, data_loaded |-> FALSE,
     last |-> [op |-> "none", section_name |-> "", config |-> "None",
               ret |-> "None", before |-> <<>>]]

\* process_survey has not been called
IdleSummarizer ==
    [pc |-> "idle", df |-> <<>>, grouped |-> <<>>, idx |-> 1,
     attempts |-> <<>>, question_summaries |-> <<>>,
     overall_summary |-> [kind |-> "none", keys |-> {}],
     overall_status |-> "none", written |-> FALSE, exception |-> "none",
     output |-> [total_questions |-> 0, total_responses |-> 0,
                 question_summaries |-> <<>>,
                 overall_summary |-> [kind |-> "none", keys |-> {}]],
     bedrock |-> [caller |-> "none", invocations |-> 0, status |-> "none", text |-> ""]]

Init ==
    /\ pc = "idle"
    /\ response = None
    /\ question = None
    /\ lib = LibRaises
    /\ result = NoResult
    /\ tables = InitTables
    /\ seen = <<>>
    /\ ncalls = 0
    /\ workers = [w \in Workers |-> IdleFrame]
    /\ frames = NoFrames
    /\ generator = NoGenerator
    /\ summarizer = IdleSummarizer

\* the caller binds the arguments of the next call
Call ==
    /\ pc = "idle"
    /\ \E r \in Responses, q \in Questions, l \in LibCalls :
          /\ response' = r
          /\ question' = q
          /\ lib' = l
    /\ pc' = "called"
    /\ UNCHANGED <<result, tables, seen, ncalls, workers,
                 frames, generator, summarizer>>

\* faulty variant: the constructive "stop" of a positive-bias question is
\* implemented by removing the stop pattern from the module-level list
Run_removes_stop_pattern ==
    /\ pc = "called"
    /\ result' = Classify(response, question, lib)
    /\ pc' = "returned"
    /\ tables' =
          IF /\ detect_question_context(question) = "positive_bias"
             /\ response.kind = "str"
             /\ Contains(Lower(response.s), "stop")
          THEN [tables EXCEPT !.NEGATION_PATTERNS =
                    SelectSeq(tables.NEGATION_PATTERNS,
                              LAMBDA pat : pat # <<B, Lit("stop"), B>>)]
          ELSE tables
    /\ UNCHANGED <<response, question, lib, seen, ncalls, workers,
                 frames, generator, summarizer>>

\* the call runs to its return: no table is written
Run ==
    /\ pc = "called"
    /\ result' = Classify(response, question, lib)
    /\ pc' = "returned"
    /\ UNCHANGED <<response, question, lib, tables, seen, ncalls, workers,
                 frames, generator, summarizer>>

\* the caller drops the result and is ready for the next call
Return ==
    /\ pc = "returned"
    /\ pc' = "idle"
    /\ response' = None
    /\ question' = None
    /\ lib' = LibRaises
    /\ result' = NoResult
    /\ UNCHANGED <<tables, seen, ncalls, workers,
                 frames, generator, summarizer>>

(* A caller that repeats calls and keeps, per input, the first result *)

\* number of calls a run of SpecRepeat makes
MaxCalls == 3

RepeatResponses == { Str(t) : t \in {"stop", "Not sure", "More collaboration"} }

RepeatQuestions ==
    {Str("What are the biggest challenges?"),
     Str("What should we START doing differently tomorrow?"),
     None}

RepeatLibCalls == {LibReturns(300), LibRaises}

\* the input of the call in progress
CallKey == [response |-> response, question |-> question, lib |-> lib]

CallAgain ==
    /\ pc = "idle"
    /\ ncalls < MaxCalls
    /\ \E r \in RepeatResponses, q \in RepeatQuestions, l \in RepeatLibCalls :
          /\ response' = r
          /\ question' = q
          /\ lib' = l
    /\ pc' = "called"
    /\ ncalls' = ncalls + 1
    /\ UNCHANGED <<result, tables, seen, workers,
                 frames, generator, summarizer>>

\* the caller keeps the first result obtained for this input
ReturnRecorded ==
    /\ pc = "returned"
    /\ pc' = "idle"
    /\ seen' = IF CallKey \in DOMAIN seen THEN seen ELSE (CallKey :> result) @@ seen
    /\ response' = None
    /\ question' = None
    /\ lib' = LibRaises
    /\ result' = NoResult
    /\ UNCHANGED <<tables, ncalls, workers,
                 frames, generator, summarizer>>

Next ==
    \/ Call
    \/ Run
    \/ Return

Spec == Init /\ [][Next]_vars

----------------------------------------------------------------------------
(* Properties *)

Returned == pc = "returned"

\* the question context the call in progress was classified under
Context == detect_question_context(question)

\* the response of the call in progress is a text
IsText == response.kind = "str"

\* the lowercased raw response text
RawLower == Lower(response.s)

\* the cleaned response of the call in progress
Cleaned == preprocess_response(response)

Labels == {"Positive", "Neutral", "Negative"}

\* the response matches a gap pattern and contains a strength keyword
GapAndStrength ==
    /\ IsText
    /\ detect_gap_indicators(Cleaned)
    /\ contains_keywords(Cleaned, STRENGTH_KEYWORDS)

\* C1 (as claimed): a response that matches a gap pattern and contains a
\* strength keyword is never labelled Positive, in any question context and
\* for any baseline polarity.
C1_GapOverStrengthNeverPositive ==
    (Returned /\ GapAndStrength) => result.sentiment # "Positive"

\* the response matches an uncertainty pattern
Uncertain == IsText /\ detect_uncertainty(Lower(Cleaned))

\* C2 (as claimed): a response that matches an uncertainty pattern is always
\* labelled Neutral, whatever the context, its length and its keywords.
C2_UncertaintyAlwaysNeutral ==
    (Returned /\ Uncertain) => result.sentiment = "Neutral"

\* C3: totality.  For every response and every question (empty, blank,
\* punctuation only, None included) the call returns a triple of a label, a
\* confidence and a non-empty reasoning, and never ends in an error.
C3_Totality ==
    Returned =>
        /\ result.status = "ok"
        /\ result.sentiment # ""
        /\ result.reasoning # ""

\* a call with an absent question and a failing library has returned a scored result
C3_Witness ==
    /\ Returned
    /\ question = None
    /\ IsText
    /\ lib.raises
    /\ result.status = "ok"
    /\ result.scored

\* C4: label consistency.  On a non-empty response the label is Positive iff
\* the final score is > 0.1, Negative iff it is < -0.1, and Neutral otherwise;
\* a final score of exactly 0.1 or -0.1 is Neutral.
C4_LabelConsistency ==
    (Returned /\ result.scored) =>
        /\ (result.sentiment = "Positive") <=> FLess(Lit0_1, result.score)
        /\ (result.sentiment = "Negative") <=> FLess(result.score, FNeg(Lit0_1))
        /\ (result.sentiment = "Neutral") <=>
               (~FLess(Lit0_1, result.score) /\ ~FLess(result.score, FNeg(Lit0_1)))

\* a call has returned Neutral with a final score of exactly 0.1
C4_Witness ==
    /\ Returned
    /\ result.scored
    /\ result.score = Lit0_1
    /\ result.sentiment = "Neutral"

\* the response contains "listen" together with "more" or "active"
ListeningIdiom ==
    /\ IsText
    /\ Contains(RawLower, "listen")
    /\ (Contains(RawLower, "more") \/ Contains(RawLower, "active"))

\* C5: listening-gap override.  A response that contains "listen" together
\* with "more" or "active" is labelled Negative with confidence >= 0.9, in
\* every question context and whatever the polarity and the other signals.
C5_ListeningOverride ==
    (Returned /\ ListeningIdiom) =>
        /\ result.sentiment = "Negative"
        /\ result.confidence >= 90

\* "Active_listening" was classified under a positive-bias question with the
\* most positive polarity
C5_Witness ==
    /\ Returned
    /\ ListeningIdiom
    /\ Contains(RawLower, "active")
    /\ ~Contains(RawLower, "more")
    /\ Context = "positive_bias"
    /\ ~lib.raises /\ lib.polarity = 1000
    /\ result.sentiment = "Negative"

PocEntry == "POC in negative context (pain point)"

\* the reasoning list has the entry e
HasEntry(e) == \E i \in 1..Len(result.reasoning_parts) : result.reasoning_parts[i] = e

\* C6: POC override.  A response that contains "poc", classified under a
\* negative-bias context, is labelled Negative with final score -0.5 and
\* confidence 0.9 whatever the other signals; under a positive-bias or neutral
\* context the override never fires.
C6_PocOverride ==
    (Returned /\ IsText /\ result.status = "ok") =>
        /\ (Contains(RawLower, "poc") /\ Context = "negative_bias") =>
              /\ result.sentiment = "Negative"
              /\ result.score = FNeg(Lit0_5)
              /\ result.confidence = 90
              /\ HasEntry(PocEntry)
        /\ Context # "negative_bias" => ~HasEntry(PocEntry)

\* a response with "poc" and the listening idiom was classified under a
\* negative-bias question: the POC override acted after the listening one
C6_Witness ==
    /\ Returned
    /\ IsText
    /\ Contains(RawLower, "poc")
    /\ ListeningIdiom
    /\ Context = "negative_bias"
    /\ result.confidence = 90

\* the response is empty after preprocessing: not a text, or a text made of
\* whitespace and underscores only
BlankResponse ==
    \/ ~IsText
    \/ \A i \in 1..Len(response.s) :
          IsSpace(CharAt(response.s, i)) \/ CharAt(response.s, i) = "_"

\* C7: empty-response short-circuit.  When the response is empty after
\* preprocessing the call returns exactly (Neutral, 0.5, "Empty response") in
\* every question context, without evaluating the baseline or any rule.
C7_EmptyShortCircuit ==
    (Returned /\ BlankResponse) =>
        /\ result.status = "ok"
        /\ result.sentiment = "Neutral"
        /\ result.confidence = 50
        /\ result.reasoning = "Empty response"
        /\ ~result.scored
        /\ ~result.lib_called

\* an underscores-only response was classified under a negative-bias question
C7_Witness ==
    /\ Returned
    /\ response = Str("__")
    /\ Context = "negative_bias"
    /\ result.reasoning = "Empty response"

\* C8: lexical-tool failure is absorbed.  When the library raises on a
\* non-empty response that matches no override key, the call does not fail
\* and returns exactly what it returns for a baseline polarity of 0.0 with
\* the same context and signals.
C8_LibFailureAbsorbed ==
    (Returned /\ lib.raises) =>
        /\ result.status = "ok"
        /\ result = Classify(response, question, LibReturns(0))
        /\ result.lib_called => result.base_polarity = 0

\* the library raised in a call that reached it, and no rule fired
C8_Witness ==
    /\ Returned
    /\ lib.raises
    /\ result.lib_called
    /\ result.reasoning = "TextBlob polarity: 0.00"

\* C9: output domain.  Every result has a sentiment among Positive, Neutral,
\* Negative and a confidence within [0, 1] inclusive.
C9_OutputDomain ==
    Returned =>
        /\ result.sentiment \in Labels
        /\ result.confidence >= 0
        /\ result.confidence <= 100

\* a call has returned with a strength keyword after a negation (0.85 reached
\* before the strength rule)
C9_Witness ==
    /\ Returned
    /\ HasEntry("Contains negation pattern (no/not/stop/can't)")
    /\ HasEntry("Contains strength keywords")
    /\ result.confidence = 85

NextRepeat ==
    \/ CallAgain
    \/ Run
    \/ ReturnRecorded

SpecRepeat == Init /\ [][NextRepeat]_vars

\* C10: determinism.  Two calls with the same response, the same question
\* and the same library behaviour return identical sentiment, confidence,
\* reasoning (and score), whatever calls were made in between.
C10_Determinism ==
    (Returned /\ CallKey \in DOMAIN seen) => result = seen[CallKey]

\* the third call of a run repeats an earlier input on a text, after a call
\* with another input
C10_Witness ==
    /\ Returned
    /\ ncalls = 3
    /\ CallKey \in DOMAIN seen
    /\ Cardinality(DOMAIN seen) = 2
    /\ result.scored

----------------------------------------------------------------------------
(* Concurrent callers of analyze_sentiment.  Each caller runs the loop of  *)
(* lines 570-581 on its own list; the steps of the callers interleave     *)
(* where new_contextual_sentiment reads a module-level list.              *)

\* largest number of responses in one call of analyze_sentiment
MaxBatch == 2

BatchResponses == {Str("stop"), Str("More collaboration"), None}

Batches == UNION { [1..n -> BatchResponses] : n \in 1..MaxBatch }

BatchQuestions ==
    {Str("What are the biggest challenges?"),
     Str("What should we START doing differently tomorrow?")}

\* what TextBlob does in the calls made for one list
BatchLibCalls == {LibReturns(300)}

\* the dict appended to sentiments (lines 575-580)
SentimentRecord(resp, res) ==
    [response |-> resp, sentiment |-> res.sentiment,
     confidence |-> res.confidence, reasoning |-> res.reasoning]

\* lines 566-570: analyze_sentiment is entered, the question context is
\* detected once and sentiments starts empty
analyze_sentiment_call(w) ==
    /\ workers[w].pc = "idle"
    /\ \E rs \in Batches, q \in BatchQuestions, l \in BatchLibCalls :
          workers' = [workers EXCEPT ![w] =
                        [IdleFrame EXCEPT !.pc = "loop",
                                          !.responses = rs,
                                          !.question_text = q,
                                          !.question_context = detect_question_context(q),
                                          !.lib = l]]
    /\ UNCHANGED <<pc, response, question, lib, result, tables, seen, ncalls,
                 frames, generator, summarizer>>

\* lines 571-573 and 432-485: the next response is handed to
\* new_contextual_sentiment, which returns at once on an empty response and
\* otherwise runs up to the gap rule
new_contextual_sentiment_enter(w) ==
    LET f == workers[w]
    IN  /\ f.pc = "loop"
        /\ f.i <= Len(f.responses)
        /\ LET resp == f.responses[f.i]
               cleaned_response == preprocess_response(resp)
               response_lower == Lower(cleaned_response)
               base == baseline_polarity(response_lower, f.lib)
               st0 == [score |-> FromMilli(base.value), confidence |-> 50, parts |-> <<>>]
               st1 == rule1_context(st0, f.question_context)
               has_gap_indicator == detect_gap_indicators(cleaned_response)
           IN  workers' = [workers EXCEPT ![w] =
                  IF cleaned_response = ""
                  THEN [f EXCEPT !.sentiments =
                                     Append(f.sentiments, SentimentRecord(resp, EmptyResult)),
                                 !.i = f.i + 1]
                  ELSE [f EXCEPT !.pc = "rule3",
                                 !.st = rule2_gap(st1, has_gap_indicator),
                                 !.base = base.value,
                                 !.has_gap_indicator = has_gap_indicator]]
        /\ UNCHANGED <<pc, response, question, lib, result, tables, seen, ncalls,
                 frames, generator, summarizer>>

\* faulty variant: the constructive "stop" of a positive-bias question is
\* implemented by removing the stop pattern from the module-level list
new_contextual_sentiment_negation_removes_stop_pattern(w) ==
    LET f == workers[w]
        cleaned_response == preprocess_response(f.responses[f.i])
        response_lower == Lower(cleaned_response)
        has_uncertainty == detect_uncertainty(response_lower)
        constructive_stop ==
            /\ f.question_context = "positive_bias"
            /\ Contains(response_lower, "stop")
            /\ ~has_uncertainty
        has_negation == ~constructive_stop /\ detect_negation(cleaned_response)
    IN  /\ f.pc = "rule3"
        /\ workers' = [workers EXCEPT ![w] =
              [f EXCEPT !.pc = "rule4",
                        !.st = rule3_uncertainty_negation(f.st, has_uncertainty, has_negation)]]
        /\ tables' =
              IF constructive_stop
              THEN [tables EXCEPT !.NEGATION_PATTERNS =
                        SelectSeq(tables.NEGATION_PATTERNS,
                                  LAMBDA pat : pat # <<B, Lit("stop"), B>>)]
              ELSE tables
        /\ UNCHANGED <<pc, response, question, lib, result, seen, ncalls,
                 frames, generator, summarizer>>

\* lines 487-509: uncertainty and negation, read from NEGATION_PATTERNS
new_contextual_sentiment_negation(w) ==
    LET f == workers[w]
        cleaned_response == preprocess_response(f.responses[f.i])
        response_lower == Lower(cleaned_response)
        has_uncertainty == detect_uncertainty(response_lower)
        has_negation ==
            context_aware_negation(cleaned_response, response_lower,
                                   f.question_context, has_uncertainty)
    IN  /\ f.pc = "rule3"
        /\ workers' = [workers EXCEPT ![w] =
              [f EXCEPT !.pc = "rule4",
                        !.st = rule3_uncertainty_negation(f.st, has_uncertainty, has_negation)]]
        /\ UNCHANGED <<pc, response, question, lib, result, tables, seen, ncalls,
                 frames, generator, summarizer>>

\* lines 511-562 and 575-580: the keyword rules, the short-response rule,
\* the edge cases and the label; the dict is appended to sentiments
new_contextual_sentiment_return(w) ==
    LET f == workers[w]
        resp == f.responses[f.i]
        cleaned_response == preprocess_response(resp)
        response_lower == Lower(cleaned_response)
        st4 == rule4_pain(f.st, cleaned_response)
        st5 == rule5_strength(st4, cleaned_response, f.has_gap_indicator)
        st6 == rule6_short(st5, cleaned_response, f.question_context)
        st7 == rule7_listening(st6, response_lower)
        st8 == rule7_poc(st7, response_lower, f.question_context)
        res == [sentiment |-> final_sentiment(st8.score),
                confidence |-> st8.confidence,
                reasoning |-> Join("; ", build_reasoning(st8.parts, f.base))]
    IN  /\ f.pc = "rule4"
        /\ workers' = [workers EXCEPT ![w] =
              [f EXCEPT !.pc = "loop",
                        !.sentiments = Append(f.sentiments, SentimentRecord(resp, res)),
                        !.i = f.i + 1]]
        /\ UNCHANGED <<pc, response, question, lib, result, tables, seen, ncalls,
                 frames, generator, summarizer>>

\* line 583: the loop is over, the DataFrame of sentiments is returned
analyze_sentiment_return(w) ==
    LET f == workers[w]
    IN  /\ f.pc = "loop"
        /\ f.i > Len(f.responses)
        /\ workers' = [workers EXCEPT ![w] = [f EXCEPT !.pc = "done"]]
        /\ UNCHANGED <<pc, response, question, lib, result, tables, seen, ncalls,
                 frames, generator, summarizer>>

NextBatch ==
    \E w \in Workers :
        \/ analyze_sentiment_call(w)
        \/ new_contextual_sentiment_enter(w)
        \/ new_contextual_sentiment_negation(w)
        \/ new_contextual_sentiment_return(w)
        \/ analyze_sentiment_return(w)

SpecBatch == Init /\ [][NextBatch]_vars

\* C11: no cross-response state.  While the callers' classifications
\* interleave, no module-level list is modified, every caller has appended
\* exactly one record per response it has consumed, in input order, and each
\* record is what a standalone call returns for that response, question and
\* library behaviour; a finished caller has one record per input response.
C11_NoCrossResponseState ==
    /\ tables = InitTables
    /\ \A w \in Workers :
          LET f == workers[w]
          IN  /\ Len(f.sentiments) = f.i - 1
              /\ f.pc = "done" => Len(f.sentiments) = Len(f.responses)
              /\ \A k \in 1..Len(f.sentiments) :
                    f.sentiments[k] =
                        SentimentRecord(f.responses[k],
                                        Classify(f.responses[k], f.question_text, f.lib))

\* both callers are inside new_contextual_sentiment at the same time, each
\* on the second response of its list, one under a positive-bias question
\* with "stop" and the other under a negative-bias question with "stop"
C11_Witness ==
    /\ workers[1].pc = "rule4"
    /\ workers[2].pc = "rule3"
    /\ workers[1].i = 2
    /\ workers[2].i = 2
    /\ workers[1].question_context = "positive_bias"
    /\ workers[2].question_context = "negative_bias"
    /\ workers[1].responses[2] = Str("stop")
    /\ workers[2].responses[2] = Str("stop")

----------------------------------------------------------------------------
(* Properties of the question context *)

\* the question of the call in progress is a text containing one of phrases
QuestionHasPhrase(phrases) ==
    /\ question.kind = "str"
    /\ \E i \in 1..Len(phrases) : Contains(Lower(question.s), Lower(phrases[i]))

HasNegativePhrase ==
    QuestionHasPhrase(QUESTION_CONTEXT.challenges \o QUESTION_CONTEXT.stop_doing)

HasPositivePhrase ==
    QuestionHasPhrase(QUESTION_CONTEXT.start_doing \o QUESTION_CONTEXT.human_value)

HasCulturePhrase == QuestionHasPhrase(QUESTION_CONTEXT.team_culture)

NegativeContextEntry == "Question has negative context"
PositiveContextEntry == "Question has positive context"

\* C12: context tie-break.  A question with at least one negative-bias
\* phrase (challenges or stop-doing group) is detected as negative_bias, also
\* when it contains a positive-bias phrase; positive_bias is returned only
\* when no negative-bias phrase matches.  The scored result carries the
\* matching context entry first.
C12_NegativeBiasFirst ==
    (Returned /\ question.kind = "str") =>
        /\ HasNegativePhrase => Context = "negative_bias"
        /\ Context = "positive_bias" => ~HasNegativePhrase
        /\ (HasNegativePhrase /\ result.scored) =>
               result.reasoning_parts[1] = NegativeContextEntry

\* a question with a stop-doing phrase and a start-doing phrase was
\* classified as negative_bias and the response was scored under it
C12_Witness ==
    /\ Returned
    /\ HasNegativePhrase
    /\ HasPositivePhrase
    /\ Context = "negative_bias"
    /\ result.scored
    /\ result.reasoning_parts[1] = NegativeContextEntry

\* the question is absent (None, NaN) or the empty text
AbsentOrEmptyQuestion == IsNa(question) \/ question = Str("")

\* C13: detect_question_context is total.  For every question text and for
\* an absent or empty question it returns negative_bias, positive_bias or
\* neutral and the call does not fail; an absent or empty question yields
\* neutral, so no context entry is written.
C13_ContextTotal ==
    Returned =>
        /\ Context \in {"negative_bias", "positive_bias", "neutral"}
        /\ result.status = "ok"
        /\ AbsentOrEmptyQuestion =>
              /\ Context = "neutral"
              /\ ~HasEntry(NegativeContextEntry)
              /\ ~HasEntry(PositiveContextEntry)

\* a text response was scored under a NaN question
C13_Witness ==
    /\ Returned
    /\ question = NaN
    /\ IsText
    /\ result.scored
    /\ Context = "neutral"

\* C14 (as claimed): a question that contains a team-culture phrase and no
\* negative-bias phrase is detected as positive_bias, and its scored
\* responses carry the positive context adjustment.
C14_CultureIsPositive ==
    (Returned /\ HasCulturePhrase /\ ~HasNegativePhrase) =>
        /\ Context = "positive_bias"
        /\ result.scored => HasEntry(PositiveContextEntry)

----------------------------------------------------------------------------
(* Properties of the negation rule and of the confidence *)

GapEntry == "Contains gap/need indicator (more/better/need/should)"
UncertaintyEntry == "Expresses uncertainty"
NegationEntry == "Contains negation pattern (no/not/stop/can't)"
PainEntry == "Contains pain point keywords"
StrengthEntry == "Contains strength keywords"
ShortNegativeEntry == "Short response in negative context"
ShortPositiveEntry == "Short response in positive context"
ListeningEntry == "Listening gap indicator (listen more/active listening)"

\* what the rule that writes entry e does to the score s
EntryEffect(e, s) ==
    CASE e = NegativeContextEntry -> FSub(s, Lit0_4)
      [] e = PositiveContextEntry -> FAdd(s, Lit0_5)
      [] e = GapEntry             -> FSub(s, Lit0_5)
      [] e = UncertaintyEntry     -> Lit0_0
      [] e = NegationEntry        -> FSub(s, Lit0_4)
      [] e = PainEntry            -> FSub(s, Lit0_3)
      [] e = StrengthEntry        -> FAdd(s, Lit0_3)
      [] e = ShortNegativeEntry   -> FSub(s, Lit0_2)
      [] e = ShortPositiveEntry   -> FAdd(s, Lit0_2)
      [] e = ListeningEntry       -> FNeg(Lit0_6)
      [] e = PocEntry             -> FNeg(Lit0_5)
      [] OTHER                    -> s

RECURSIVE ReplayScore(_, _, _)
\* the score obtained from s by the rules of parts[k..], in order
ReplayScore(parts, k, s) ==
    IF k > Len(parts) THEN s
    ELSE ReplayScore(parts, k + 1, EntryEffect(parts[k], s))

\* the final score is the baseline changed by the listed rules and no other
ScoreExplained ==
    result.score = ReplayScore(result.reasoning_parts, 1, FromMilli(result.base_polarity))

\* the cleaned response contains "stop" as a substring
ContainsStop == IsText /\ Contains(Lower(Cleaned), "stop")

\* the cleaned response contains "stop" as a word
ContainsStopWord == IsText /\ ReSearch(<<B, Lit("stop"), B>>, Lower(Cleaned))

\* C15 (as claimed): constructive "stop".  For a response that contains
\* "stop" and matches no uncertainty pattern: under positive_bias the
\* negation rule does not fire (no negation entry, no -0.4 in the score);
\* under negative_bias or neutral the same response has the negation penalty.
C15_ConstructiveStop ==
    (Returned /\ result.scored /\ ContainsStop /\ ~Uncertain) =>
        /\ ScoreExplained
        /\ Context = "positive_bias" => ~HasEntry(NegationEntry)
        /\ Context \in {"negative_bias", "neutral"} => HasEntry(NegationEntry)

\* the cleaned response matches a negation pattern other than "stop"
OtherNegationCue ==
    /\ IsText
    /\ \E i \in 1..Len(NEGATION_PATTERNS) :
          /\ NEGATION_PATTERNS[i] # <<B, Lit("stop"), B>>
          /\ ReSearch(NEGATION_PATTERNS[i], Lower(Cleaned))

\* C15 (amended): for a response that contains "stop" and matches no
\* uncertainty pattern, under positive_bias the negation rule does not fire
\* (no negation entry, no -0.4 in the score); under negative_bias or neutral
\* the response has the negation penalty when "stop" is a word of its own
\* (the negation pattern \bstop\b) or it matches another negation pattern,
\* and a response that has "stop" only inside a longer word and matches no
\* other negation pattern has no negation entry and no penalty.
C15_ConstructiveStopWord ==
    (Returned /\ result.scored /\ ContainsStop /\ ~Uncertain) =>
        /\ ScoreExplained
        /\ Context = "positive_bias" => ~HasEntry(NegationEntry)
        /\ Context \in {"negative_bias", "neutral"} =>
               (HasEntry(NegationEntry) <=> (ContainsStopWord \/ OtherNegationCue))

\* "stop" alone was classified under a question of neutral context and has
\* the negation penalty (0.0 - 0.4, Negative), while the same response with
\* the same library behaviour under a positive-bias question is classified
\* Positive without a negation entry
C15_Witness ==
    /\ Returned
    /\ response = Str("stop")
    /\ question = None
    /\ Context = "neutral"
    /\ ~lib.raises /\ lib.polarity = 0
    /\ ContainsStopWord /\ ~OtherNegationCue /\ ~Uncertain
    /\ HasEntry(NegationEntry)
    /\ result.score = FSub(Lit0_0, Lit0_4)
    /\ result.sentiment = "Negative"
    /\ LET constructive ==
               Classify(response,
                        Str("What should we START doing differently tomorrow?"),
                        lib)
       IN  /\ detect_question_context(
                  Str("What should we START doing differently tomorrow?")) = "positive_bias"
           /\ constructive.sentiment = "Positive"
           /\ \A i \in 1..Len(constructive.reasoning_parts) :
                 constructive.reasoning_parts[i] # NegationEntry

\* C16 (as claimed): only "stop" is ever suppressed.  A response that
\* matches a negation cue other than "stop" and no uncertainty pattern has
\* the -0.4 negation penalty in every question context, also when it
\* contains "stop" as well under positive_bias.
C16_OnlyStopSuppressed ==
    (Returned /\ result.scored /\ OtherNegationCue /\ ~Uncertain) =>
        /\ HasEntry(NegationEntry)
        /\ ScoreExplained

\* C17 (as claimed): the confidence is only raised.  A response with a gap
\* indicator and no listening or POC override ends with a confidence of at
\* least 0.9, whatever later rules fire.
C17_GapConfidenceFloor ==
    (/\ Returned
     /\ result.scored
     /\ HasEntry(GapEntry)
     /\ ~HasEntry(ListeningEntry)
     /\ ~HasEntry(PocEntry)) => result.confidence >= 90

----------------------------------------------------------------------------
(* Properties of the reasoning, the baseline and the context *)

\* the position of the rule that writes entry e in the order of application
\* (0: not the entry of a rule)
EntryRank(e) ==
    CASE e \in {NegativeContextEntry, PositiveContextEntry} -> 1
      [] e = GapEntry -> 2
      [] e \in {UncertaintyEntry, NegationEntry} -> 3
      [] e = PainEntry -> 4
      [] e = StrengthEntry -> 5
      [] e \in {ShortNegativeEntry, ShortPositiveEntry} -> 6
      [] e = ListeningEntry -> 7
      [] e = PocEntry -> 8
      [] OTHER -> 0

\* what the rule that writes entry e does to the confidence c (1/100)
EntryConfidence(e, c) ==
    CASE e = NegativeContextEntry -> 80
      [] e = PositiveContextEntry -> 70
      [] e = GapEntry             -> 90
      [] e = UncertaintyEntry     -> 85
      [] e = NegationEntry        -> 85
      [] e = PainEntry            -> Max(c, 80)
      [] e = StrengthEntry        -> Max(c, 80)
      [] e = ListeningEntry       -> 95
      [] e = PocEntry             -> 90
      [] OTHER                    -> c

RECURSIVE ReplayConfidence(_, _, _)
\* the confidence obtained from c by the rules of parts[k..], in order
ReplayConfidence(parts, k, c) ==
    IF k > Len(parts) THEN c
    ELSE ReplayConfidence(parts, k + 1, EntryConfidence(parts[k], c))

\* the number of words of the cleaned response
WordCount == Len(Split(Cleaned))

\* the negation cue of the response counts: a negation pattern matches and
\* the constructive "stop" of a positive-bias question does not apply
NegationCounts ==
    /\ ContainsStopWord \/ OtherNegationCue
    /\ ~(Context = "positive_bias" /\ ContainsStop)

\* C18: reasoning trace.  For a non-empty response the reasoning is never
\* empty; it has an entry for a rule exactly when the rule's condition holds
\* (context, gap, uncertainty or else negation, pain, strength without gap,
\* short response in a biased context, listening override, POC override);
\* the entries stand in the order of application; replaying the listed rules
\* from the baseline gives the final score and confidence; and the single
\* baseline-polarity entry is there iff no rule fired.
C18_ReasoningTrace ==
    (Returned /\ result.scored) =>
        LET parts == result.reasoning_parts
            fallback == "TextBlob polarity: " \o Fmt2(result.base_polarity)
            NoRuleFired == \A i \in 1..Len(parts) : EntryRank(parts[i]) = 0
        IN  /\ parts # <<>>
            /\ result.reasoning # ""
            /\ \A i, j \in 1..Len(parts) :
                  i < j => (EntryRank(parts[i]) > 0 /\ EntryRank(parts[i]) < EntryRank(parts[j]))
            /\ NoRuleFired <=> parts = <<fallback>>
            /\ HasEntry(NegativeContextEntry) <=> Context = "negative_bias"
            /\ HasEntry(PositiveContextEntry) <=> Context = "positive_bias"
            /\ HasEntry(GapEntry) <=> detect_gap_indicators(Cleaned)
            /\ HasEntry(UncertaintyEntry) <=> Uncertain
            /\ HasEntry(NegationEntry) <=> (~Uncertain /\ NegationCounts)
            /\ HasEntry(PainEntry) <=> contains_keywords(Cleaned, PAIN_KEYWORDS)
            /\ HasEntry(StrengthEntry) <=>
                  (contains_keywords(Cleaned, STRENGTH_KEYWORDS) /\ ~detect_gap_indicators(Cleaned))
            /\ HasEntry(ShortNegativeEntry) <=> (WordCount <= 3 /\ Context = "negative_bias")
            /\ HasEntry(ShortPositiveEntry) <=> (WordCount <= 3 /\ Context = "positive_bias")
            /\ HasEntry(ListeningEntry) <=> ListeningIdiom
            /\ HasEntry(PocEntry) <=>
                  (Contains(Lower(Cleaned), "poc") /\ Context = "negative_bias")
            /\ ScoreExplained
            /\ result.confidence = ReplayConfidence(parts, 1, 50)

\* a two-word response under a negative-bias question made the context, gap,
\* pain and short-response rules fire, listed in that order
C18_Witness ==
    /\ Returned
    /\ result.reasoning_parts =
          <<NegativeContextEntry, GapEntry, PainEntry, ShortNegativeEntry>>

\* the positions of the override keys that occur in the lowercased cleaned
\* response
OverrideHits ==
    { i \in 1..Len(TEXTBLOB_OVERRIDES) :
        Contains(Lower(Cleaned), TEXTBLOB_OVERRIDES[i][1]) }

\* C19: baseline override lookup.  When the lowercased cleaned response
\* contains a key of the override table, the baseline is the value of the
\* first such key in table order and the library is not called, so that a
\* failing library gives the same result; when no key occurs the library is
\* called and its polarity is the baseline.
C19_OverrideLookup ==
    (Returned /\ result.scored) =>
        /\ OverrideHits # {} =>
              /\ \E i \in OverrideHits :
                    /\ \A j \in OverrideHits : i <= j
                    /\ result.base_polarity = TEXTBLOB_OVERRIDES[i][2]
              /\ ~result.lib_called
              /\ result = Classify(response, question, LibRaises)
        /\ OverrideHits = {} =>
              /\ result.lib_called
              /\ ~lib.raises => result.base_polarity = lib.polarity

\* "having a knowledge base" contains three keys of the table; the first,
\* "knowledge base", gave the baseline 0.1
C19_Witness ==
    /\ Returned
    /\ response = Str("having a knowledge base")
    /\ Cardinality(OverrideHits) = 3
    /\ result.base_polarity = 100
    /\ ~result.lib_called
    /\ ~lib.raises /\ lib.polarity = -1000

\* the response has at most three words and triggers no detector (gap,
\* uncertainty, negation, pain, strength) and no override
ShortAmbiguous ==
    /\ IsText
    /\ Cleaned # ""
    /\ WordCount <= 3
    /\ ~detect_gap_indicators(Cleaned)
    /\ ~Uncertain
    /\ ~ContainsStopWord
    /\ ~OtherNegationCue
    /\ ~contains_keywords(Cleaned, PAIN_KEYWORDS)
    /\ ~contains_keywords(Cleaned, STRENGTH_KEYWORDS)
    /\ ~ListeningIdiom
    /\ ~Contains(Lower(Cleaned), "poc")

LabelOrder(label) ==
    CASE label = "Negative" -> 0
      [] label = "Neutral"  -> 1
      [] label = "Positive" -> 2

NegativeBiasQuestions == { q \in Questions : detect_question_context(q) = "negative_bias" }

\* C20: context asymmetry.  For a response of at most three words that
\* triggers no detector and no override, classified under a positive-bias
\* question, the final score is at least the final score the same response
\* gets under a negative-bias question with the same library behaviour, and
\* the label is not lower in the order Negative < Neutral < Positive.
C20_ContextAsymmetry ==
    (Returned /\ ShortAmbiguous /\ Context = "positive_bias") =>
        \A q \in NegativeBiasQuestions :
            LET under_negative == Classify(response, q, lib)
            IN  /\ ~FLess(result.score, under_negative.score)
                /\ LabelOrder(result.sentiment) >= LabelOrder(under_negative.sentiment)

\* "having a" with a slightly negative polarity is Positive under the
\* positive-bias question and Negative under a negative-bias one
C20_Witness ==
    /\ Returned
    /\ response = Str("having a")
    /\ ShortAmbiguous
    /\ Context = "positive_bias"
    /\ ~lib.raises /\ lib.polarity = -105
    /\ result.sentiment = "Positive"
    /\ \E q \in NegativeBiasQuestions :
          Classify(response, q, lib).sentiment = "Negative"

----------------------------------------------------------------------------
(* Properties of the single rules *)

\* the position of entry e in the reasoning list (0: absent)
EntryIndex(e) ==
    IF HasEntry(e)
    THEN CHOOSE i \in 1..Len(result.reasoning_parts) : result.reasoning_parts[i] = e
    ELSE 0

\* C21: uncertainty precedes negation.  When the response matches an
\* uncertainty pattern the negation rule does not fire (no negation entry,
\* no -0.4), also when a negation pattern matches too, and the score is
\* reset to 0.0: the final score is what the rules listed after the
\* uncertainty entry make of 0.0, whatever the baseline, the context bias and
\* the gap penalty were.
C21_UncertaintyPrecedesNegation ==
    (Returned /\ result.scored /\ Uncertain) =>
        /\ HasEntry(UncertaintyEntry)
        /\ ~HasEntry(NegationEntry)
        /\ result.score =
              ReplayScore(result.reasoning_parts, EntryIndex(UncertaintyEntry) + 1, Lit0_0)

\* "More Not sure" (gap, uncertainty and the negation cue "not") was
\* classified under a negative-bias question with the most positive polarity
C21_Witness ==
    /\ Returned
    /\ Uncertain
    /\ OtherNegationCue
    /\ ~lib.raises /\ lib.polarity = 1000
    /\ HasEntry(NegativeContextEntry)
    /\ HasEntry(GapEntry)
    /\ HasEntry(UncertaintyEntry)

\* the score right before and right after the rule that wrote entry e
ScoreBefore(e) ==
    ReplayScore(SubSeq(result.reasoning_parts, 1, EntryIndex(e) - 1), 1,
                FromMilli(result.base_polarity))

ScoreAfter(e) ==
    ReplayScore(SubSeq(result.reasoning_parts, 1, EntryIndex(e)), 1,
                FromMilli(result.base_polarity))

\* C22: strength gating.  The strength rule fires (entry, +0.3, confidence at
\* least 0.8) iff the response contains a strength keyword and no gap pattern
\* matched; when a gap pattern matched there is no strength entry and the
\* score has no +0.3.
C22_StrengthGating ==
    (Returned /\ result.scored) =>
        /\ HasEntry(StrengthEntry) <=>
              (contains_keywords(Cleaned, STRENGTH_KEYWORDS) /\ ~detect_gap_indicators(Cleaned))
        /\ HasEntry(StrengthEntry) =>
              /\ ScoreAfter(StrengthEntry) = FAdd(ScoreBefore(StrengthEntry), Lit0_3)
              /\ result.confidence >= 80
        /\ detect_gap_indicators(Cleaned) => ~HasEntry(StrengthEntry)
        /\ ScoreExplained

\* "More trust" under a neutral question: the gap matched and the strength
\* keyword gave nothing
C22_Witness ==
    /\ Returned
    /\ response = Str("More trust")
    /\ Context = "neutral"
    /\ result.reasoning_parts = <<GapEntry>>
    /\ ~lib.raises /\ lib.polarity = 300

\* the reasoning list without the entries of the short-response step
NotShortEntry(e) == e \notin {ShortNegativeEntry, ShortPositiveEntry}

\* C23: short-response amplification.  The step fires iff the cleaned
\* response has at most three words and the context is not neutral; it then
\* adds exactly -0.2 (negative_bias) or +0.2 (positive_bias) to the score; it
\* does nothing under a neutral context and for four or more words; it never
\* changes the confidence.
C23_ShortResponse ==
    (Returned /\ result.scored) =>
        /\ HasEntry(ShortNegativeEntry) <=> (WordCount <= 3 /\ Context = "negative_bias")
        /\ HasEntry(ShortPositiveEntry) <=> (WordCount <= 3 /\ Context = "positive_bias")
        /\ HasEntry(ShortNegativeEntry) =>
              ScoreAfter(ShortNegativeEntry) = FSub(ScoreBefore(ShortNegativeEntry), Lit0_2)
        /\ HasEntry(ShortPositiveEntry) =>
              ScoreAfter(ShortPositiveEntry) = FAdd(ScoreBefore(ShortPositiveEntry), Lit0_2)
        /\ ScoreExplained
        /\ result.confidence =
              ReplayConfidence(SelectSeq(result.reasoning_parts, NotShortEntry), 1, 50)

\* a response of exactly three words got the nudge under a positive-bias
\* question, and a baseline of 0.0 ended at 0.7 with confidence 0.7
C23_Witness ==
    /\ Returned
    /\ WordCount = 3
    /\ Context = "positive_bias"
    /\ result.reasoning_parts = <<PositiveContextEntry, ShortPositiveEntry>>
    /\ result.confidence = 70
    /\ result.base_polarity = 0

\* the last entry of the reasoning list ("" for an empty list)
LastEntry ==
    IF result.reasoning_parts = <<>> THEN ""
    ELSE result.reasoning_parts[Len(result.reasoning_parts)]

\* C24: order of the final overrides.  The listening override is evaluated
\* before the POC override and both after every other rule: an override entry
\* is followed by no entry of another rule, the listening result stands when
\* only it applies, and when both apply (listening idiom and "poc" under
\* negative_bias) the result is the POC one (score -0.5, confidence 0.9) with
\* the listening entry right before the POC entry.
C24_OverrideOrder ==
    (Returned /\ result.scored) =>
        LET parts == result.reasoning_parts
            n == Len(parts)
        IN  /\ HasEntry(PocEntry) =>
                  /\ LastEntry = PocEntry
                  /\ result.score = FNeg(Lit0_5)
                  /\ result.confidence = 90
            /\ (HasEntry(ListeningEntry) /\ ~HasEntry(PocEntry)) =>
                  /\ LastEntry = ListeningEntry
                  /\ result.score = FNeg(Lit0_6)
                  /\ result.confidence = 95
            /\ (/\ ListeningIdiom
                /\ Contains(Lower(Cleaned), "poc")
                /\ Context = "negative_bias") =>
                  /\ n >= 2
                  /\ parts[n - 1] = ListeningEntry
                  /\ parts[n] = PocEntry
                  /\ result.sentiment = "Negative"

\* "POC Active_listening" under a negative-bias question: context, gap and
\* short-response entries, then the listening entry, then the POC entry
C24_Witness ==
    /\ Returned
    /\ response = Str("POC Active_listening")
    /\ result.reasoning_parts =
          <<NegativeContextEntry, GapEntry, ShortNegativeEntry, ListeningEntry, PocEntry>>
    /\ result.score = FNeg(Lit0_5)

NeutralQuestions == { q \in Questions : detect_question_context(q) = "neutral" }

\* C25: label monotonicity in the question context.  For every scored
\* response and library behaviour, the label under a positive-bias question
\* is not lower than the label under a neutral question, which is not lower
\* than the label under a negative-bias question (Negative < Neutral <
\* Positive).
C25_LabelMonotone ==
    (Returned /\ result.scored /\ Context = "positive_bias") =>
        /\ \A q \in NeutralQuestions :
              LabelOrder(result.sentiment) >=
                  LabelOrder(Classify(response, q, lib).sentiment)
        /\ \A q \in NegativeBiasQuestions :
              LabelOrder(Classify(response, None, lib).sentiment) >=
                  LabelOrder(Classify(response, q, lib).sentiment)

\* "stop problem" with polarity 0.3: Positive under the positive-bias
\* question, Negative under the neutral and the negative-bias ones
C25_Witness ==
    /\ Returned
    /\ response = Str("stop problem")
    /\ Context = "positive_bias"
    /\ ~lib.raises /\ lib.polarity = 300
    /\ result.sentiment = "Positive"
    /\ Classify(response, None, lib).sentiment = "Negative"

\* C26 (as claimed): every entry of the override table is effective.  For
\* each key of the table, the response that is the key itself gets that
\* key's value as its baseline polarity (a key shadowed on this response is
\* shadowed on every response that contains it).
C26_EveryOverrideEffective ==
    (Returned /\ result.scored) =>
        \A i \in 1..Len(TEXTBLOB_OVERRIDES) :
            Lower(Cleaned) = TEXTBLOB_OVERRIDES[i][1] =>
                result.base_polarity = TEXTBLOB_OVERRIDES[i][2]

----------------------------------------------------------------------------
(* load_data (src/app.py, lines 105-138): the rows of raw-data.csv are      *)
(* cleaned and split into the open-ended and the multiple-choice frame.    *)
(* A field of the file is a text, or NaN for an empty field.  A row keeps   *)
(* its index in the file, as a DataFrame row does.                         *)

\* the variables of the classifier, untouched by the other components
classifier_vars == <<pc, response, question, lib, result, tables, seen, ncalls, workers>>

RECURSIVE LStrip(_)
LStrip(s) ==
    IF s # "" /\ IsSpace(CharAt(s, 1)) THEN LStrip(SubSeq(s, 2, Len(s))) ELSE s

RECURSIVE RStrip(_)
RStrip(s) ==
    IF s # "" /\ IsSpace(CharAt(s, Len(s))) THEN RStrip(SubSeq(s, 1, Len(s) - 1)) ELSE s

\* str.strip()
Strip(s) == RStrip(LStrip(s))

DigitSet == CharsOf(DigitChars)

\* every character of s is a digit (true of the empty text)
AllDigits(s) == \A i \in 1..Len(s) : CharAt(s, i) \in DigitSet

\* re.match(r'^\d+$', s): digits to the end of the text, or to a final LF
MatchesDigits(s) ==
    \/ s # "" /\ AllDigits(s)
    \/ Len(s) > 1 /\ CharAt(s, Len(s)) = "\n" /\ AllDigits(SubSeq(s, 1, Len(s) - 1))

\* the decimal numeral of a natural number
RECURSIVE NatStr(_)
NatStr(n) == IF n < 10 THEN Digit(n) ELSE NatStr(n \div 10) \o Digit(n % 10)

RECURSIVE StripLeadingZeros(_)
StripLeadingZeros(s) ==
    IF s # "" /\ CharAt(s, 1) = "0" THEN StripLeadingZeros(SubSeq(s, 2, Len(s))) ELSE s

RECURSIVE StripTrailingZeros(_)
StripTrailingZeros(s) ==
    IF s # "" /\ CharAt(s, Len(s)) = "0"
    THEN StripTrailingZeros(SubSeq(s, 1, Len(s) - 1)) ELSE s

\* str(value) of element-wise .astype(str): the text itself, 'nan' for NaN,
\* 'True' or 'False' for a bool, the decimal numeral of an int, repr of a
\* float.  A number is [neg, ip, fp]: its sign, the digits of its integer
\* part without leading zeros and of its fraction without trailing zeros.
\* repr of a float whose digits are d1 d2 ... with the decimal point after
\* the first decpt of them is positional for -4 < decpt <= 16 and
\* d1.d2...e+XX otherwise
FloatRepr(neg, ip, fp) ==
    LET sign == IF neg THEN "-" ELSE ""
        digits == IF ip # "" THEN StripTrailingZeros(ip \o fp) ELSE StripLeadingZeros(fp)
        decpt == IF ip # "" THEN Len(ip) ELSE Len(StripLeadingZeros(fp)) - Len(fp)
        exp == decpt - 1
    IN  IF ip = "" /\ fp = "" THEN sign \o "0.0"
        ELSE IF decpt > -4 /\ decpt <= 16
        THEN sign \o (IF ip = "" THEN "0" ELSE ip) \o "." \o (IF fp = "" THEN "0" ELSE fp)
        ELSE sign \o SubSeq(digits, 1, 1)
                  \o (IF Len(digits) > 1 THEN "." \o SubSeq(digits, 2, Len(digits)) ELSE "")
                  \o "e" \o (IF exp < 0 THEN "-" ELSE "+")
                  \o (IF exp < 10 /\ exp > -10 THEN "0" ELSE "")
                  \o NatStr(IF exp < 0 THEN -exp ELSE exp)

AsTypeStr(cell) ==
    IF cell.kind = "str" THEN cell.s
    ELSE IF cell.kind = "nan" THEN "nan"
    ELSE IF cell.kind = "bool" THEN cell.s
    ELSE IF cell.kind = "int"
    THEN (IF cell.neg /\ cell.ip # "" THEN "-" ELSE "") \o (IF cell.ip = "" THEN "0" ELSE cell.ip)
    ELSE IF cell.kind = "float"
    THEN (IF cell.s = "inf" THEN (IF cell.neg THEN "-inf" ELSE "inf")
          ELSE FloatRepr(cell.neg, cell.ip, cell.fp))
    ELSE "None"

\* line 132: a question is kept with at least this many open-ended rows
MinResponses == 10

\* the number of rows of frame df whose Question is q (value_counts)
QuestionCount(df, q) == Cardinality({ i \in 1..Len(df) : df[i].Question = q })

(***************************************************************************)
(* pd.read_csv with its default settings (app.py line 109,                 *)
(* presentation_generator.py line 119).  Fields that are empty or are one  *)
(* of the NA words are NaN.  A column whose other fields are all integer   *)
(* literals is int64 (float64 if it has a NaN, each integer converted); if *)
(* all are number literals it is float64; if all are the words true or     *)
(* false in any case its values are bools (dtype bool, object if it has a  *)
(* NaN); otherwise it is an object column of texts.                        *)
(* A number literal is [sign] digits [. digits] [e [sign] digits] with the *)
(* parser's white space around it, or one of the words for infinity.  The  *)
(* model reads the literals of at most MaxDigits digits whose decimal      *)
(* exponent is at most MaxExponent either way: for these the parser's      *)
(* double is the nearest one and its repr has the digits of the literal.   *)
(***************************************************************************)
NaValues ==
    {"", "#N/A", "#N/A N/A", "#NA", "-1.#IND", "-1.#QNAN", "-NaN", "-nan",
     "1.#IND", "1.#QNAN", "<NA>", "N/A", "NA", "NULL", "NaN", "None", "n/a",
     "nan", "null"}

\* the field is read as NaN
IsNaField(cell) == cell.kind = "nan" \/ (cell.kind = "str" /\ cell.s \in NaValues)

\* isspace_ascii, the white space the number conversions skip: space, TAB,
\* LF, CR, FF and VT (the last string holds that one control character)
IsSpaceAscii(c) == c \in {" ", "\t", "\n", "\r", "\f", ""}

\* the literal without the white space before and after it
RECURSIVE SkipSpaces(_)
SkipSpaces(s) ==
    IF s # "" /\ IsSpaceAscii(CharAt(s, 1)) THEN SkipSpaces(SubSeq(s, 2, Len(s)))
    ELSE IF s # "" /\ IsSpaceAscii(CharAt(s, Len(s)))
    THEN SkipSpaces(SubSeq(s, 1, Len(s) - 1))
    ELSE s

\* the number a text of digits is the decimal numeral of (0 for no digit)
RECURSIVE DigitsValue(_)
DigitsValue(s) ==
    IF s = "" THEN 0
    ELSE DigitsValue(SubSeq(s, 1, Len(s) - 1)) * 10
             + (CHOOSE d \in 0..9 : Digit(d) = CharAt(s, Len(s)))

\* n zeros
RECURSIVE Zeros(_)
Zeros(n) == IF n <= 0 THEN "" ELSE "0" \o Zeros(n - 1)

\* largest number of digits of a number literal the model reads
MaxDigits == 15

\* largest decimal exponent, either way, of a number literal the model reads
MaxExponent == 22

\* the parts of a number literal: ok tells whether the text is one, integer
\* whether it has neither point nor exponent, ip and fp are the digits before
\* and after the point, exp is the exponent.  The text is taken apart from
\* the left: white space, sign, digits up to the first e or E, of these the
\* digits up to the first point, then the sign and digits of the exponent
NumberParts(text) ==
    LET First(set, none) ==
            IF set = {} THEN none ELSE CHOOSE k \in set : \A j \in set : k <= j
        Positions(t, chars) == { k \in 1..Len(t) : CharAt(t, k) \in chars }
        Unsigned(t) ==
            IF t # "" /\ CharAt(t, 1) \in {"+", "-"} THEN SubSeq(t, 2, Len(t)) ELSE t
        Parts(ok, neg, ip, fp, point, has_e, ex, exdigits) ==
            [ok |-> ok, integer |-> ~point /\ ~has_e, neg |-> neg,
             ip |-> ip, fp |-> fp,
             exp |-> IF ~ok \/ ~has_e \/ Len(exdigits) > MaxDigits THEN 0
                     ELSE IF CharAt(ex, 1) = "-" THEN 0 - DigitsValue(exdigits)
                     ELSE DigitsValue(exdigits)]
        Digits(neg, ip, fp, point, has_e, ex, exdigits) ==
            Parts(/\ AllDigits(ip) /\ AllDigits(fp) /\ ip \o fp # ""
                  /\ has_e => exdigits # "" /\ AllDigits(exdigits),
                  neg, ip, fp, point, has_e, ex, exdigits)
        Point(neg, mant, dot, has_e, ex) ==
            Digits(neg, SubSeq(mant, 1, dot - 1), SubSeq(mant, dot + 1, Len(mant)),
                   dot <= Len(mant), has_e, ex, Unsigned(ex))
        Mantissa(neg, mant, has_e, ex) ==
            Point(neg, mant, First(Positions(mant, {"."}), Len(mant) + 1), has_e, ex)
        Exponent(neg, u, e) ==
            Mantissa(neg, SubSeq(u, 1, e - 1), e <= Len(u), SubSeq(u, e + 1, Len(u)))
        Sign(neg, u) == Exponent(neg, u, First(Positions(u, {"e", "E"}), Len(u) + 1))
        Body(body) == Sign(body # "" /\ CharAt(body, 1) = "-", Unsigned(body))
    IN  Body(SkipSpaces(text))

\* the field is an integer literal for read_csv
IsIntegerField(cell) ==
    cell.kind = "str" /\ NumberParts(cell.s).ok /\ NumberParts(cell.s).integer

\* the field is one of the words read as an infinite float, in any case
IsInfField(cell) ==
    /\ cell.kind = "str"
    /\ Lower(cell.s) \in {"inf", "+inf", "-inf", "infinity", "+infinity", "-infinity"}

\* the field is a number literal for read_csv
IsNumberField(cell) ==
    cell.kind = "str" /\ (NumberParts(cell.s).ok \/ IsInfField(cell))

\* the field is a bool word: TRUE or FALSE in any case
IsBoolField(cell) == cell.kind = "str" /\ Lower(cell.s) \in {"true", "false"}

\* the field is one the model reads as read_csv does
FieldInModel(cell) ==
    LET InBounds(n) ==
            n.ok => /\ Cardinality({ k \in 1..Len(cell.s) :
                                        CharAt(cell.s, k) \in DigitSet }) <= MaxDigits
                    /\ n.exp - Len(n.fp) <= MaxExponent
                    /\ Len(n.fp) - n.exp <= MaxExponent
    IN  cell.kind = "str" => InBounds(NumberParts(cell.s))

\* the number a literal stands for: its sign, and the digits before and after
\* the point once the exponent has moved it
ParseNumber(text, kind) ==
    LET Moved(n, left, right) ==
            IF n.exp >= 0
            THEN [kind |-> kind, s |-> "", neg |-> n.neg,
                  ip |-> StripLeadingZeros(n.ip \o SubSeq(right, 1, n.exp)),
                  fp |-> StripTrailingZeros(SubSeq(n.fp, n.exp + 1, Len(n.fp)))]
            ELSE [kind |-> kind, s |-> "", neg |-> n.neg,
                  ip |-> StripLeadingZeros(SubSeq(left, 1, Len(left) + n.exp)),
                  fp |-> StripTrailingZeros(
                             SubSeq(left, Len(left) + n.exp + 1, Len(left)) \o n.fp)]
        Padded(n) == Moved(n, Zeros(0 - n.exp) \o n.ip, n.fp \o Zeros(n.exp))
    IN  IF IsInfField([kind |-> "str", s |-> text])
        THEN [kind |-> kind, s |-> "inf", neg |-> CharAt(text, 1) = "-",
              ip |-> "", fp |-> ""]
        ELSE Padded(NumberParts(text))

\* the fields of the column that are not NaN
NonNaFields(cells) == { cells[i] : i \in { k \in 1..Len(cells) : ~IsNaField(cells[k]) } }

\* the dtype inferred for a column from its fields
ColumnDtype(cells) ==
    LET has_na == \E i \in 1..Len(cells) : IsNaField(cells[i])
    IN  IF cells = <<>> THEN "object"
        ELSE IF (\A c \in NonNaFields(cells) : IsIntegerField(c)) THEN (IF has_na THEN "float64" ELSE "int64")
        ELSE IF (\A c \in NonNaFields(cells) : IsNumberField(c)) THEN "float64"
        ELSE IF (\A c \in NonNaFields(cells) : IsBoolField(c)) /\ ~has_na THEN "bool"
        ELSE "object"

\* what the parser found in a column: its dtype, and whether the fields that
\* are not NaN are all integer literals, all bool words
ColumnInfo(cells) ==
    [dtype |-> ColumnDtype(cells),
     integers |-> (\A c \in NonNaFields(cells) : IsIntegerField(c)),
     bools |-> (\A c \in NonNaFields(cells) : IsBoolField(c))]

\* the value read_csv gives for a field of a column
ReadField(cell, column) ==
    IF IsNaField(cell) THEN NaN
    ELSE IF column.dtype = "int64" THEN ParseNumber(cell.s, "int")
    ELSE IF column.dtype = "float64"
    THEN IF column.integers
         THEN LET n == ParseNumber(cell.s, "int")
              IN  [n EXCEPT !.kind = "float", !.neg = n.neg /\ n.ip # ""]
         ELSE ParseNumber(cell.s, "float")
    ELSE IF column.bools
    THEN [kind |-> "bool", s |-> IF Lower(cell.s) = "true" THEN "True" ELSE "False"]
    ELSE cell

\* the column names read_csv makes of a header.  An empty name becomes
\* 'Unnamed: i' (i counted from 0).  The names are then visited, those of
\* the file before the generated ones, each in header order; counts holds
\* per name the number of times it was given out.  A name already given out
\* n times is tried again as 'name.n', with n raised while that name is in
\* the header or was given out itself, and the name settled on replaces the
\* entry of the header.
DedupNames(columns) ==
    LET Positions == [k \in 1..Len(columns) |-> k]
        this_header ==
            [k \in 1..Len(columns) |->
                IF columns[k] = "" THEN "Unnamed: " \o NatStr(k - 1) ELSE columns[k]]
        col_loop_order ==
            SelectSeq(Positions, LAMBDA k : columns[k] # "")
                \o SelectSeq(Positions, LAMBDA k : columns[k] = "")
        Get(counts, col) == IF col \in DOMAIN counts THEN counts[col] ELSE 0
        InHeader(col, header) == \E k \in 1..Len(header) : header[k] = col
        RECURSIVE Mangle(_, _, _, _)
        \* the while loop: counts[old_col] = cur_count + 1, then the next
        \* candidate name
        Mangle(header, counts, old_col, cur_count) ==
            LET Try(counts1, col) ==
                    IF InHeader(col, header)
                    THEN Mangle(header, counts1, old_col, cur_count + 1)
                    ELSE IF Get(counts1, col) > 0
                    THEN Mangle(header, counts1, old_col, Get(counts1, col))
                    ELSE [col |-> col, counts |-> counts1]
            IN  Try((old_col :> (cur_count + 1)) @@ counts,
                    old_col \o "." \o NatStr(cur_count))
        RECURSIVE Loop(_, _, _)
        \* the for loop over col_loop_order
        Loop(header, counts, order) ==
            IF order = <<>> THEN header
            ELSE LET Settle(i, m) ==
                         Loop([header EXCEPT ![i] = m.col],
                              (m.col :> 1) @@ m.counts, Tail(order))
                 IN  Settle(Head(order),
                            IF Get(counts, header[Head(order)]) > 0
                            THEN Mangle(header, counts, header[Head(order)],
                                        Get(counts, header[Head(order)]))
                            ELSE [col |-> header[Head(order)], counts |-> counts])
    IN  Loop(this_header, <<>>, col_loop_order)

\* the column names are stripped and 'Responses' is renamed (app.py lines
\* 110-114, presentation_generator.py lines 121-123)
CleanColumns(columns) ==
    [k \in 1..Len(columns) |->
        LET name == Strip(DedupNames(columns)[k])
        IN  IF name = "Responses" THEN "Response" ELSE name]

\* the position of the one column of that name (0: no such column, or two)
ColumnOf(columns, name) ==
    LET at == { k \in 1..Len(columns) : CleanColumns(columns)[k] = name }
    IN  IF Cardinality(at) = 1 THEN CHOOSE k \in at : TRUE ELSE 0

\* what load_data returns from its except branch (lines 136-138)
EmptyFrames == [open_ended |-> <<>>, multiple_choice |-> <<>>]

\* the one value of a singleton set: { e(x) : x \in {v} } computes v once
\* and names it x in e
ValueOf(S) == CHOOSE v \in S : TRUE

\* lines 109-121: the frame read from the file, its two columns as stripped
\* texts, without the rows whose Response, then whose Question, is empty or
\* 'nan'.  rc and qc are the positions of the Response and Question columns
CleanedFrame(rows, rc, qc) ==
    ValueOf({
        SelectSeq(
            SelectSeq([i \in 1..Len(rows) |->
                          [idx |-> i,
                           Response |-> Strip(AsTypeStr(ReadField(rows[i][rc], rcol))),
                           Question |-> Strip(AsTypeStr(ReadField(rows[i][qc], qcol)))]],
                      LAMBDA r : r.Response # "" /\ r.Response # "nan"),
            LAMBDA r : r.Question # "" /\ r.Question # "nan")
        : rcol \in {ColumnInfo([i \in 1..Len(rows) |-> rows[i][rc]])},
          qcol \in {ColumnInfo([i \in 1..Len(rows) |-> rows[i][qc]])} })

\* lines 131-133: the open-ended rows of the questions that have at least
\* MinResponses of them
FrequentQuestions(open_ended) ==
    ValueOf({ SelectSeq(oe, LAMBDA r : QuestionCount(oe, r.Question) >= MinResponses)
              : oe \in {open_ended} })

\* lines 125-126: the column Is_Numeric is added
AddIsNumeric(frame) ==
    ValueOf({ [i \in 1..Len(df) |->
                  [idx |-> df[i].idx, Response |-> df[i].Response,
                   Question |-> df[i].Question,
                   Is_Numeric |-> MatchesDigits(df[i].Response)]]
              : df \in {frame} })

\* lines 127-135: the frame is split on Is_Numeric
SplitFrames(frame) ==
    ValueOf({ [open_ended |-> FrequentQuestions(SelectSeq(df, LAMBDA r : ~r.Is_Numeric)),
               multiple_choice |-> SelectSeq(df, LAMBDA r : r.Is_Numeric)]
              : df \in {AddIsNumeric(frame)} })

\* load_data on the file raw-data.csv: exists tells whether it is there,
\* columns is its header, a row is the sequence of its fields
load_data(exists, columns, rows) ==
    LET rc == ColumnOf(columns, "Response")
        qc == ColumnOf(columns, "Question")
    IN  IF ~exists \/ rc = 0 \/ qc = 0 THEN EmptyFrames
        ELSE SplitFrames(CleanedFrame(rows, rc, qc))

\* largest number of blocks of equal rows raw-data.csv is made of
MaxBlocks == 3

\* the number of equal rows of a block: one row, or one short of the threshold
BlockLengths == {1, 9}

\* the headers and the fields the file is written with (NaN: an empty field)
CsvHeaders == {<<"Question", "Response">>, <<" Responses", "Question ">>}
CsvResponses == {NaN, Str("N/A"), Str(" 012"), Str("1.5"), Str("7 up")}
CsvQuestions == {NaN, Str("Q1"), Str(" Q2")}

\* raw-data.csv is created with its header
write_header ==
    /\ frames.pc = "absent"
    /\ \E columns \in CsvHeaders :
          frames' = [frames EXCEPT !.pc = "editing", !.columns = columns]
    /\ UNCHANGED <<classifier_vars, generator, summarizer>>

\* rows are appended to raw-data.csv before the dashboard reads it
append_rows ==
    /\ frames.pc = "editing"
    /\ frames.blocks < MaxBlocks
    /\ \E r \in CsvResponses, q \in CsvQuestions, k \in BlockLengths :
          /\ FieldInModel(r) /\ FieldInModel(q)
          /\ LET row == [c \in 1..Len(frames.columns) |->
                            IF Strip(frames.columns[c]) = "Question" THEN q ELSE r]
             IN  frames' = [frames EXCEPT
                               !.rows = frames.rows \o [i \in 1..k |-> row],
                               !.blocks = frames.blocks + 1]
    /\ UNCHANGED <<classifier_vars, generator, summarizer>>

\* the dashboard calls load_data()
load_data_call ==
    /\ frames.pc \in {"absent", "editing"}
    /\ LET out == load_data(frames.pc = "editing", frames.columns, frames.rows)
       IN  frames' = [frames EXCEPT !.pc = IF frames.pc = "absent" THEN "loaded_absent"
                                                                    ELSE "loaded",
                                    !.open_ended = out.open_ended,
                                    !.multiple_choice = out.multiple_choice]
    /\ UNCHANGED <<classifier_vars, generator, summarizer>>

NextLoad == write_header \/ append_rows \/ load_data_call

SpecLoad == Init /\ [][NextLoad]_vars

\* the text of a field of the file as written ("" for an empty field)
FieldText(cell) == IF cell.kind = "str" THEN Strip(cell.s) ELSE ""

\* the stripped text of the Response and of the Question of row i of the file
RowResponse(i) == FieldText(frames.rows[i][ColumnOf(frames.columns, "Response")])
RowQuestion(i) == FieldText(frames.rows[i][ColumnOf(frames.columns, "Question")])

\* the file has been read and has its two columns
LoadedWithColumns ==
    /\ frames.pc = "loaded"
    /\ ColumnOf(frames.columns, "Response") # 0
    /\ ColumnOf(frames.columns, "Question") # 0

\* row i of the file has a blank or 'nan' response or question
InvalidRow(i) ==
    \/ RowResponse(i) \in {"", "nan"}
    \/ RowQuestion(i) \in {"", "nan"}

\* row i is a valid row whose response is digits only / is a text
NumericRow(i) == ~InvalidRow(i) /\ MatchesDigits(RowResponse(i))
TextRow(i) == ~InvalidRow(i) /\ ~MatchesDigits(RowResponse(i))

\* row i of the file is in the frame out
RowIn(out, i) == \E j \in 1..Len(out) : out[j].idx = i

\* the number of text rows of the file with the question of row i
TextRowsOfQuestion(i) ==
    Cardinality({ k \in 1..Len(frames.rows) : TextRow(k) /\ RowQuestion(k) = RowQuestion(i) })

\* C27 (as claimed): row source filter.  After load_data on a file with the
\* Question and Response columns, a row with a blank or 'nan'
\* response or question is in neither frame; a digits-only row is in the
\* multiple-choice frame and not in the open-ended one; a text row is in the
\* open-ended frame iff its question has at least 10 text rows, and never in
\* the multiple-choice one; no row is in both frames, and no blank or
\* digits-only response is in the open-ended frame.
C27_RowSourceFilter ==
    LoadedWithColumns =>
        /\ \A i \in 1..Len(frames.rows) :
              /\ InvalidRow(i) =>
                    (~RowIn(frames.open_ended, i) /\ ~RowIn(frames.multiple_choice, i))
              /\ NumericRow(i) =>
                    (RowIn(frames.multiple_choice, i) /\ ~RowIn(frames.open_ended, i))
              /\ TextRow(i) =>
                    /\ RowIn(frames.open_ended, i) <=> TextRowsOfQuestion(i) >= 10
                    /\ ~RowIn(frames.multiple_choice, i)
        /\ \A j \in 1..Len(frames.open_ended) :
              /\ frames.open_ended[j].idx \in 1..Len(frames.rows)
              /\ frames.open_ended[j].Response \notin {"", "nan"}
              /\ ~MatchesDigits(frames.open_ended[j].Response)
              /\ \A k \in 1..Len(frames.open_ended) :
                    frames.open_ended[j].idx = frames.open_ended[k].idx => j = k
        /\ \A j \in 1..Len(frames.multiple_choice) :
              frames.multiple_choice[j].idx \in 1..Len(frames.rows)

(***************************************************************************)
(* PresentationGenerator (presentation_generator.py).  The object is the   *)
(* record generator; data_sources is the set of keys of self.data_sources, *)
(* raw_data the frame stored under 'raw_data' (its column names and its    *)
(* rows of values), a config is the text of the dict passed ("None" when   *)
(* none is passed), and last records the latest call: its arguments, what  *)
(* it returned or raised, and the section list it started from.            *)
(* A file raw-data.csv is [exists, columns, rows]: whether it is there,    *)
(* its header and its rows of fields, one field for each column.  The      *)
(* content of llm_summaries.json, when it loads, is what process_survey    *)
(* writes from answers of the requested shape; the texts of both files     *)
(* are ones the chart, slide and page libraries accept.                    *)
(***************************************************************************)

\* SECTION_REGISTRY: section name -> section class
SECTION_REGISTRY ==
    ("Title Slide" :> "TitleSlideSection") @@
    ("Executive Summary" :> "ExecutiveSummarySection") @@
    ("Survey Overview" :> "SurveyOverviewSection") @@
    ("Sentiment Analysis" :> "SentimentAnalysisSection") @@
    ("Top 5 Priorities" :> "PrioritiesSection") @@
    ("Critical Risks" :> "RisksSection") @@
    ("Cross-Question Insights" :> "CrossQuestionSection") @@
    ("Action Plan" :> "ActionPlanSection") @@
    ("Quick Wins" :> "QuickWinsSection") @@
    ("Multiple Choice Results" :> "MultipleChoiceSection") @@
    ("AI Insights (Full)" :> "AIInsightsSection") @@
    ("Appendix" :> "AppendixSection")

LLM_REQUIRED_SECTIONS ==
    {"Executive Summary", "Top 5 Priorities", "Critical Risks",
     "Cross-Question Insights", "Action Plan", "AI Insights (Full)"}

\* what can happen to llm_summaries.json: missing, json.load raises, loaded
LlmOutcomes == {"missing", "error", "loaded"}

\* line 119, pd.read_csv(csv_path): the rows of values of the file
read_csv(columns, rows) ==
    ValueOf({ [i \in 1..Len(rows) |->
                  [c \in 1..Len(columns) |-> ReadField(rows[i][c], infos[c])]]
              : infos \in {[c \in 1..Len(columns) |->
                               ColumnInfo([i \in 1..Len(rows) |-> rows[i][c]])]} })

\* the number of columns of that name
ColumnCount(columns, name) == Cardinality({ k \in 1..Len(columns) : columns[k] = name })

\* lines 117-132, the frame of raw-data.csv: line 119 raises on a file
\* without header, line 126 on a frame without Response column, line 127 on
\* one with two of them, and nothing is stored; the rows kept are those
\* whose Response is not NaN, not empty once stripped, and not 'nan' once
\* lowered
CleanedRawData(csv) ==
    LET rc == ColumnOf(csv.columns, "Response")
    IN  IF ~csv.exists \/ csv.columns = <<>> \/ rc = 0 THEN NoRawData
        ELSE [kind |-> "frame", columns |-> CleanColumns(csv.columns),
              rows |-> SelectSeq(read_csv(csv.columns, csv.rows),
                                 LAMBDA row : /\ row[rc].kind # "nan"
                                              /\ Strip(AsTypeStr(row[rc])) # ""
                                              /\ Lower(AsTypeStr(row[rc])) # "nan")]

\* load_data_sources: keys are only ever added to self.data_sources; the
\* frame is stored (line 128) before df['Question'].unique() is evaluated
\* (line 129), which raises unless there is one Question column
load_data_sources(g, csv, llm) ==
    LET Stored(df) ==
            [g EXCEPT
                !.raw_data = IF df.kind = "frame" THEN df ELSE g.raw_data,
                !.data_sources =
                    g.data_sources
                    \cup (IF df.kind = "frame" THEN {"raw_data"} ELSE {})
                    \cup (IF df.kind = "frame" /\ ColumnCount(df.columns, "Question") = 1
                          THEN {"questions"} ELSE {})
                    \cup (IF llm = "loaded" THEN {"llm_summaries"} ELSE {}),
                !.data_loaded = TRUE]
    IN  Stored(CleanedRawData(csv))

\* get_available_sections, once the data is loaded: the 'available' field of
\* the entry of each registry name
get_available_sections(g) ==
    LET has_llm == "llm_summaries" \in g.data_sources
        has_csv == "raw_data" \in g.data_sources
    IN  [name \in DOMAIN SECTION_REGISTRY |->
            LET requires_llm == name \in LLM_REQUIRED_SECTIONS
            IN  IF requires_llm /\ ~has_llm THEN FALSE
                ELSE IF ~has_csv /\ name \notin LLM_REQUIRED_SECTIONS
                     THEN name \in {"Title Slide"}
                     ELSE TRUE]

\* config or {}
ConfigOrEmpty(config) == IF config \in {"None", "{}"} THEN "{}" ELSE config

\* what add_section leaves when it has returned ret
AddSectionReturn(g, before, section_name, config, ret) ==
    [g EXCEPT !.last = [op |-> "add_section", section_name |-> section_name,
                        config |-> config, ret |-> ret, before |-> before]]

\* faulty variant: no check of the name against the registry, so that an
\* unknown name has no entry in get_available_sections and is appended
add_section_no_registry_check(g, section_name, config, csv, llm) ==
    LET Checked(g1, available_sections) ==
            IF /\ section_name \in DOMAIN available_sections
               /\ ~available_sections[section_name]
            THEN AddSectionReturn(g1, g.sections, section_name, config, "False")
            ELSE AddSectionReturn(
                     [g1 EXCEPT !.sections =
                         Append(g.sections, [name |-> section_name,
                                             config |-> ConfigOrEmpty(config)])],
                     g.sections, section_name, config, "True")
        Loaded(g1) == Checked(g1, get_available_sections(g1))
    IN  Loaded(IF g.data_loaded THEN g ELSE load_data_sources(g, csv, llm))

\* add_section (lines 185-213); csv and llm are what the files do if the
\* data has to be loaded by get_available_sections
add_section(g, section_name, config, csv, llm) ==
    IF section_name \notin DOMAIN SECTION_REGISTRY
    THEN AddSectionReturn(g, g.sections, section_name, config, "False")
    ELSE LET Checked(g1, available_sections) ==
                 IF /\ section_name \in DOMAIN available_sections
                    /\ ~available_sections[section_name]
                 THEN AddSectionReturn(g1, g.sections, section_name, config, "False")
                 ELSE AddSectionReturn(
                          [g1 EXCEPT !.sections =
                              Append(g.sections, [name |-> section_name,
                                                  config |-> ConfigOrEmpty(config)])],
                          g.sections, section_name, config, "True")
             Loaded(g1) == Checked(g1, get_available_sections(g1))
         IN  Loaded(IF g.data_loaded THEN g ELSE load_data_sources(g, csv, llm))

\* SurveyOverviewSection._get_stats (survey_overview.py lines 27-54), run by
\* generate_pptx_slides and generate_pdf_content alike: without raw_data the
\* statistics are zeros; raw_data['Question'] raises KeyError without such a
\* column, and with two of them is a frame, which has no unique(); len(q) at
\* line 51 raises TypeError for a question that is not a text (NaN, a
\* number, a bool)
SurveyOverviewSection(raw_data, output_format) ==
    LET n == ColumnCount(raw_data.columns, "Question")
        qc == CHOOSE k \in 1..Len(raw_data.columns) : raw_data.columns[k] = "Question"
    IN  IF raw_data.kind = "none" THEN "ok"
        ELSE IF n = 0 THEN "KeyError: 'Question'"
        ELSE IF n > 1 THEN "AttributeError"
        ELSE IF \E i \in 1..Len(raw_data.rows) : raw_data.rows[i][qc].kind # "str"
        THEN "TypeError"
        ELSE "ok"

\* QuickWinsSection (quick_wins.py): without raw_data _get_quick_wins returns
\* a dict without the totals (line 32), which generate_pptx_slides reads at
\* line 89 and generate_pdf_content does not; row['Question'] (line 39) is
\* evaluated for each row, and raises KeyError without such a column
QuickWinsSection(raw_data, output_format) ==
    IF raw_data.kind = "none"
    THEN (IF output_format = "pptx" THEN "KeyError: 'stop_total'" ELSE "ok")
    ELSE IF raw_data.rows # <<>> /\ ColumnCount(raw_data.columns, "Question") = 0
    THEN "KeyError: 'Question'"
    ELSE "ok"

\* _generate_pptx and _generate_pdf: for each entry in turn the loop reads
\* SECTION_REGISTRY[section_info['name']] and lets the section generate its
\* slides or pages; the first exception ends the loop.  The other sections
\* do not read raw_data
RECURSIVE generate_sections(_, _, _)
generate_sections(sections, raw_data, output_format) ==
    IF sections = <<>> THEN "bytes"
    ELSE IF Head(sections).name \notin DOMAIN SECTION_REGISTRY
    THEN "KeyError: section name"
    ELSE LET Section(section_class) ==
                 IF section_class = "SurveyOverviewSection"
                 THEN SurveyOverviewSection(raw_data, output_format)
                 ELSE IF section_class = "QuickWinsSection"
                 THEN QuickWinsSection(raw_data, output_format)
                 ELSE "ok"
             Continue(raised) ==
                 IF raised # "ok" THEN raised
                 ELSE generate_sections(Tail(sections), raw_data, output_format)
         IN  Continue(Section(SECTION_REGISTRY[Head(sections).name]))

\* generate
generate(g, csv, llm) ==
    LET Generated(g1) ==
            [g1 EXCEPT !.last =
                [op |-> "generate", section_name |-> "", config |-> "None",
                 ret |-> IF g1.output_format = "pptx"
                         THEN generate_sections(g1.sections, g1.raw_data, "pptx")
                         ELSE IF g1.output_format = "pdf"
                         THEN generate_sections(g1.sections, g1.raw_data, "pdf")
                         ELSE "ValueError",
                 before |-> g.sections]]
    IN  Generated(IF g.data_loaded THEN g ELSE load_data_sources(g, csv, llm))

\* what open(path, mode) for writing does when it is reached: the file is
\* opened, or open raises (the directory of the path does not exist, the
\* path is a directory, the file may not be written)
OpenOutcomes == {"opened", "FileNotFoundError", "IsADirectoryError", "PermissionError"}

\* export_to_file: generate(), whose exception is not caught, then
\* open(filepath, 'wb') and the write; the method returns None
export_to_file(g, csv, llm, outcome) ==
    LET Exported(g1) ==
            [g1 EXCEPT !.last.op = "export_to_file",
                       !.last.ret = IF g1.last.ret # "bytes" THEN g1.last.ret
                                    ELSE IF outcome = "opened" THEN "None"
                                    ELSE outcome]
    IN  Exported(generate(g, csv, llm))

RECURSIVE get_estimated_slides(_)
\* get_estimated_slides: the sum over the list of estimates.get(name, 1)
get_estimated_slides(sections) ==
    IF sections = <<>> THEN 0
    ELSE (CASE Head(sections).name \in {"Sentiment Analysis", "Top 5 Priorities",
                                        "Quick Wins", "Multiple Choice Results"} -> 2
            [] Head(sections).name = "AI Insights (Full)" -> 3
            [] OTHER -> 1)
         + get_estimated_slides(Tail(sections))

\* largest number of entries of the section list
MaxSections == 2

\* the files a call can find: they are read only while no data is loaded
FilesRead(g, files) == IF g.data_loaded THEN {CHOOSE f \in files : TRUE} ELSE files

\* the formats, section names and configs the callers pass
OutputFormats == {"pptx", "PDF", "docx"}
SectionNameInputs ==
    {"Title Slide", "Executive Summary", "Survey Overview", "Quick Wins",
     "Unknown Section"}
ConfigInputs == {"None", "{}", "{'title': 'Survey Analysis'}"}

\* the files raw-data.csv the generator finds: none; a header only; complete
\* rows; a row with an empty Question; no Response column; no Question column
CsvFiles ==
    {[exists |-> FALSE, columns |-> <<>>, rows |-> <<>>],
     [exists |-> TRUE, columns |-> <<"Response">>, rows |-> <<>>],
     [exists |-> TRUE, columns |-> <<"Question", "Response">>,
      rows |-> <<<<Str("What should we STOP doing"), Str("long meetings")>>>>],
     [exists |-> TRUE, columns |-> <<"Question", "Response">>,
      rows |-> <<<<NaN, Str("hello")>>, <<Str("Q1"), Str("12")>>>>],
     [exists |-> TRUE, columns |-> <<"Question">>, rows |-> <<<<Str("Q1")>>>>],
     [exists |-> TRUE, columns |-> <<" Responses">>, rows |-> <<<<Str("7 up")>>, <<NaN>>>>]}

\* PresentationGenerator(output_format)
PresentationGenerator_init ==
    /\ ~generator.constructed
    /\ \E output_format \in OutputFormats :
          generator' = [NoGenerator EXCEPT !.constructed = TRUE,
                                           !.output_format = Lower(output_format)]
    /\ UNCHANGED <<classifier_vars, frames, summarizer>>

\* generator.load_data_sources()
load_data_sources_call ==
    /\ generator.constructed
    /\ \E csv \in CsvFiles, llm \in LlmOutcomes :
          generator' = [load_data_sources(generator, csv, llm) EXCEPT
                           !.last = [op |-> "load_data_sources", section_name |-> "",
                                     config |-> "None", ret |-> "dict",
                                     before |-> generator.sections]]
    /\ UNCHANGED <<classifier_vars, frames, summarizer>>

\* generator.get_available_sections(): the data is loaded if it was not
get_available_sections_call ==
    /\ generator.constructed
    /\ \E csv \in FilesRead(generator, CsvFiles),
          llm \in FilesRead(generator, LlmOutcomes) :
          LET g1 == IF generator.data_loaded THEN generator
                    ELSE load_data_sources(generator, csv, llm)
          IN  generator' = [g1 EXCEPT
                               !.last = [op |-> "get_available_sections",
                                         section_name |-> "", config |-> "None",
                                         ret |-> "list", before |-> generator.sections]]
    /\ UNCHANGED <<classifier_vars, frames, summarizer>>

\* generator.add_section(section_name, config)
add_section_call ==
    /\ generator.constructed
    /\ \E section_name \in SectionNameInputs, config \in ConfigInputs,
          csv \in FilesRead(generator, CsvFiles),
          llm \in FilesRead(generator, LlmOutcomes) :
          /\ generator' = add_section(generator, section_name, config, csv, llm)
          /\ Len(generator'.sections) <= MaxSections
    /\ UNCHANGED <<classifier_vars, frames, summarizer>>

\* generator.clear_sections()
clear_sections_call ==
    /\ generator.constructed
    /\ generator' = [generator EXCEPT
                        !.sections = <<>>,
                        !.last = [op |-> "clear_sections", section_name |-> "",
                                  config |-> "None", ret |-> "None",
                                  before |-> generator.sections]]
    /\ UNCHANGED <<classifier_vars, frames, summarizer>>

\* generator.generate()
generate_call ==
    /\ generator.constructed
    /\ \E csv \in FilesRead(generator, CsvFiles),
          llm \in FilesRead(generator, LlmOutcomes) :
          generator' = generate(generator, csv, llm)
    /\ UNCHANGED <<classifier_vars, frames, summarizer>>

\* generator.get_estimated_slides()
get_estimated_slides_call ==
    /\ generator.constructed
    /\ generator' = [generator EXCEPT
                        !.last = [op |-> "get_estimated_slides", section_name |-> "",
                                  config |-> "None",
                                  ret |-> NatStr(get_estimated_slides(generator.sections)),
                                  before |-> generator.sections]]
    /\ UNCHANGED <<classifier_vars, frames, summarizer>>

\* generator.export_to_file(filepath)
export_to_file_call ==
    /\ generator.constructed
    /\ \E csv \in FilesRead(generator, CsvFiles),
          llm \in FilesRead(generator, LlmOutcomes),
          outcome \in OpenOutcomes :
          generator' = export_to_file(generator, csv, llm, outcome)
    /\ UNCHANGED <<classifier_vars, frames, summarizer>>

NextGenerator ==
    \/ PresentationGenerator_init
    \/ load_data_sources_call
    \/ get_available_sections_call
    \/ add_section_call
    \/ clear_sections_call
    \/ get_estimated_slides_call
    \/ generate_call
    \/ export_to_file_call

SpecGenerator == Init /\ [][NextGenerator]_vars

\* the latest add_section call was given a name add_section must refuse
RefusedName ==
    LET name == generator.last.section_name
    IN  \/ name \notin DOMAIN SECTION_REGISTRY
        \/ name \in LLM_REQUIRED_SECTIONS /\ "llm_summaries" \notin generator.data_sources
        \/ /\ name \notin LLM_REQUIRED_SECTIONS
           /\ name # "Title Slide"
           /\ "raw_data" \notin generator.data_sources

\* C28: add_section returns False and leaves the section list unchanged when
\* the name is not in SECTION_REGISTRY or the section is unavailable (an
\* LLM-required section with no LLM summaries loaded, a non-LLM section
\* other than 'Title Slide' with no raw data loaded); otherwise it appends
\* exactly one entry at the end and returns True.  clear_sections empties the
\* list, and no other method (load_data_sources, get_available_sections,
\* get_estimated_slides, generate, export_to_file) changes it.  Every entry
\* of the list is a registry key, and generate(), called directly or by
\* export_to_file, never raises KeyError on a section lookup.
C28_AddSection ==
    /\ generator.last.op = "add_section" =>
          IF RefusedName
          THEN /\ generator.last.ret = "False"
               /\ generator.sections = generator.last.before
          ELSE /\ generator.last.ret = "True"
               /\ Len(generator.sections) = Len(generator.last.before) + 1
               /\ SubSeq(generator.sections, 1, Len(generator.last.before))
                     = generator.last.before
               /\ generator.sections[Len(generator.sections)].name
                     = generator.last.section_name
    /\ generator.last.op = "clear_sections" => generator.sections = <<>>
    /\ \A i \in 1..Len(generator.sections) :
          generator.sections[i].name \in DOMAIN SECTION_REGISTRY
    /\ generator.last.op \in {"load_data_sources", "get_available_sections",
                             "get_estimated_slides", "generate", "export_to_file"} =>
          generator.sections = generator.last.before
    /\ generator.last.op \in {"generate", "export_to_file"} =>
          generator.last.ret # "KeyError: section name"

\* an unknown name is refused on a list that already has an entry
C28_Witness ==
    /\ generator.last.op = "add_section"
    /\ generator.last.section_name \notin DOMAIN SECTION_REGISTRY
    /\ generator.last.ret = "False"
    /\ generator.last.before # <<>>
    /\ generator.sections = generator.last.before

(***************************************************************************)
(* LLMBatchSummarizer (llm_batch_summarizer.py).  process_survey is one    *)
(* sequential process, the record summarizer; its position pc moves at the *)
(* blocking calls (the Bedrock request, the rate-limit sleep, the file     *)
(* write).  attempts and overall_status record what happened to each call  *)
(* of summarize_question and to generate_overall_summary.                  *)
(***************************************************************************)

\* the markdown fence, three backquotes; a string of this language cannot
\* hold a backquote, so the texts below write it as a tilde
Fence == "~~~"

\* the texts the model answers with
CompleteJson ==
    "{\"themes\": [], \"executive_summary\": \"s\", \"sentiment_analysis\": {\"overall\": \"mixed\"}}"
NoSummaryJson == "{\"themes\": []}"
NoThemesJson == "{\"executive_summary\": \"s\"}"
FencedJson == Fence \o "json " \o CompleteJson \o " " \o Fence
NotJson == "I cannot analyze this."

AnswerTexts == {CompleteJson, NoSummaryJson, NoThemesJson, FencedJson, NotJson}

\* what bedrock.invoke_model does: it raises, or it answers with a text
InvokeRaises == [raises |-> TRUE, text |-> ""]
InvokeReturns(text) == [raises |-> FALSE, text |-> text]
InvokeOutcomes == {InvokeRaises} \cup {InvokeReturns(t) : t \in AnswerTexts}

\* json.loads on the texts above: the keys of the dict, or JSONDecodeError
JsonLoads(text) ==
    IF text = CompleteJson
    THEN [kind |-> "json", keys |-> {"themes", "executive_summary", "sentiment_analysis"}]
    ELSE IF text = NoSummaryJson THEN [kind |-> "json", keys |-> {"themes"}]
    ELSE IF text = NoThemesJson THEN [kind |-> "json", keys |-> {"executive_summary"}]
    ELSE [kind |-> "JSONDecodeError", keys |-> {}]

StartsWith(s, prefix) ==
    Len(s) >= Len(prefix) /\ SubSeq(s, 1, Len(prefix)) = prefix

EndsWith(s, suffix) ==
    Len(s) >= Len(suffix) /\ SubSeq(s, Len(s) - Len(suffix) + 1, Len(s)) = suffix

\* lines 224-231 and 340-347: the markdown fences are removed
CleanResponse(response_text) ==
    LET t1 == Strip(response_text)
        t2 == IF StartsWith(t1, Fence \o "json") THEN SubSeq(t1, 8, Len(t1)) ELSE t1
        t3 == IF StartsWith(t2, Fence) THEN SubSeq(t2, 4, Len(t2)) ELSE t2
        t4 == IF EndsWith(t3, Fence) THEN SubSeq(t3, 1, Len(t3) - 3) ELSE t3
    IN  Strip(t4)

\* _call_bedrock: one invoke_model request; its exception is printed and
\* raised again, its answer is returned
call_bedrock(b, outcome) ==
    [b EXCEPT !.invocations = b.invocations + 1,
              !.status = IF outcome.raises THEN "raised" ELSE "returned",
              !.text = outcome.text]

\* summarize_question after _call_bedrock: the summary it returns, or that
\* it raises (the exception of _call_bedrock, JSONDecodeError, or KeyError
\* when the answer has no 'themes')
summarize_question(b, q, responses) ==
    LET parsed == JsonLoads(CleanResponse(b.text))
    IN  IF b.status = "raised" \/ parsed.kind # "json" \/ "themes" \notin parsed.keys
        THEN [raised |-> TRUE, summary |-> [keys |-> {}, question |-> q,
                                            response_count |-> Len(responses)]]
        ELSE [raised |-> FALSE,
              summary |-> [keys |-> parsed.keys \cup {"question", "response_count"},
                           question |-> q,
                           response_count |-> Len(responses)]]

\* lines 263-271 of generate_overall_summary: the prompt reads these keys
\* of every question summary
PromptKeys == {"question", "response_count", "executive_summary", "themes", "sentiment_analysis"}

\* the value process_survey keeps when generate_overall_summary raised
OverallError == [kind |-> "error", keys |-> {"error"}]

\* df.groupby('Question')['Response'].apply(list).reset_index(): one row
\* per question in sorted order, rows with a NaN question left out
SortedQuestions == <<"Q1", "Q2">>

GroupBy(df) ==
    LET present == SelectSeq(SortedQuestions,
                             LAMBDA q : \E i \in 1..Len(df) : df[i].Question = Str(q))
    IN  [k \in 1..Len(present) |->
            [Question |-> present[k],
             Response |-> LET of_q == SelectSeq(df, LAMBDA r : r.Question = Str(present[k]))
                          IN  [j \in 1..Len(of_q) |-> of_q[j].Response]]]

\* faulty variant: the loop is left at the first question that raises
skip_question_breaks(s) ==
    [s EXCEPT !.idx = Len(s.grouped) + 1, !.pc = "loop"]

\* lines 399-401: except Exception ... continue
skip_question(s) ==
    [s EXCEPT !.idx = s.idx + 1, !.pc = "loop"]

\* largest number of rows of the survey
MaxSurveyRows == 3

\* the Question cells and the Response texts of the rows
SurveyQuestions == {Str("Q1"), Str("Q2"), NaN}
RowTexts == <<"first", "second", "third">>

Surveys ==
    UNION {{[i \in 1..n |-> [Question |-> f[i], Response |-> RowTexts[i]]] :
                f \in [1..n -> SurveyQuestions]} : n \in 0..MaxSurveyRows}

\* process_survey(df, output_path) up to the loop; len(df) / len(grouped)
\* raises ZeroDivisionError when no row has a question
process_survey_call ==
    /\ summarizer.pc = "idle"
    /\ \E df \in Surveys :
          LET grouped == GroupBy(df)
          IN  summarizer' = [IdleSummarizer EXCEPT
                                !.df = df,
                                !.grouped = grouped,
                                !.pc = IF grouped = <<>> THEN "error" ELSE "loop",
                                !.exception = IF grouped = <<>>
                                              THEN "ZeroDivisionError" ELSE "none"]
    /\ UNCHANGED <<classifier_vars, frames, generator>>

\* the loop calls summarize_question, which calls _call_bedrock
summarize_question_call ==
    /\ summarizer.pc = "loop"
    /\ summarizer.idx <= Len(summarizer.grouped)
    /\ summarizer' = [summarizer EXCEPT
          !.pc = "bedrock",
          !.attempts = Append(summarizer.attempts,
                              [question |-> summarizer.grouped[summarizer.idx].Question,
                               outcome |-> "pending"]),
          !.bedrock = [caller |-> "summarize_question", invocations |-> 0,
                       status |-> "called", text |-> ""]]
    /\ UNCHANGED <<classifier_vars, frames, generator>>

\* _call_bedrock runs
call_bedrock_run ==
    /\ summarizer.pc = "bedrock"
    /\ \E outcome \in InvokeOutcomes :
          summarizer' = [summarizer EXCEPT
                            !.pc = "bedrock_done",
                            !.bedrock = call_bedrock(summarizer.bedrock, outcome)]
    /\ UNCHANGED <<classifier_vars, frames, generator>>

\* summarize_question ends: its summary is appended, or the question is skipped
summarize_question_return ==
    /\ summarizer.pc = "bedrock_done"
    /\ summarizer.bedrock.caller = "summarize_question"
    /\ LET row == summarizer.grouped[summarizer.idx]
           out == summarize_question(summarizer.bedrock, row.Question, row.Response)
           n == Len(summarizer.attempts)
       IN  IF out.raised
           THEN summarizer' = [skip_question(summarizer) EXCEPT
                                  !.attempts[n].outcome = "raised"]
           ELSE summarizer' = [summarizer EXCEPT
                                  !.pc = "sleep",
                                  !.attempts[n].outcome = "returned",
                                  !.question_summaries =
                                      Append(summarizer.question_summaries, out.summary)]
    /\ UNCHANGED <<classifier_vars, frames, generator>>

\* time.sleep(0.5) returns
sleep_return ==
    /\ summarizer.pc = "sleep"
    /\ summarizer' = [summarizer EXCEPT !.idx = summarizer.idx + 1, !.pc = "loop"]
    /\ UNCHANGED <<classifier_vars, frames, generator>>

\* after the loop generate_overall_summary builds its prompt (KeyError when
\* a summary lacks a key it reads) and calls _call_bedrock
generate_overall_summary_call ==
    /\ summarizer.pc = "loop"
    /\ summarizer.idx > Len(summarizer.grouped)
    /\ IF \A i \in 1..Len(summarizer.question_summaries) :
             PromptKeys \subseteq summarizer.question_summaries[i].keys
       THEN summarizer' = [summarizer EXCEPT
                !.pc = "bedrock",
                !.bedrock = [caller |-> "generate_overall_summary", invocations |-> 0,
                             status |-> "called", text |-> ""]]
       ELSE summarizer' = [summarizer EXCEPT
                !.pc = "compile",
                !.overall_status = "raised",
                !.overall_summary = OverallError]
    /\ UNCHANGED <<classifier_vars, frames, generator>>

\* generate_overall_summary ends
generate_overall_summary_return ==
    /\ summarizer.pc = "bedrock_done"
    /\ summarizer.bedrock.caller = "generate_overall_summary"
    /\ LET parsed == JsonLoads(CleanResponse(summarizer.bedrock.text))
       IN  IF summarizer.bedrock.status = "raised" \/ parsed.kind # "json"
           THEN summarizer' = [summarizer EXCEPT
                                  !.pc = "compile",
                                  !.overall_status = "raised",
                                  !.overall_summary = OverallError]
           ELSE summarizer' = [summarizer EXCEPT
                                  !.pc = "compile",
                                  !.overall_status = "returned",
                                  !.overall_summary = parsed]
    /\ UNCHANGED <<classifier_vars, frames, generator>>

\* lines 412-435: final_output is compiled; open(output_file, 'w') is in no
\* try block, so its exception leaves process_survey with no file written
\* and no value returned; otherwise final_output is written and returned
write_output ==
    /\ summarizer.pc = "compile"
    /\ \E outcome \in OpenOutcomes :
          IF outcome = "opened"
          THEN summarizer' = [summarizer EXCEPT
                   !.pc = "done",
                   !.written = TRUE,
                   !.output = [total_questions |-> Len(summarizer.question_summaries),
                               total_responses |-> Len(summarizer.df),
                               question_summaries |-> summarizer.question_summaries,
                               overall_summary |-> summarizer.overall_summary]]
          ELSE summarizer' = [summarizer EXCEPT
                   !.pc = "error",
                   !.exception = outcome]
    /\ UNCHANGED <<classifier_vars, frames, generator>>

\* the steps of a run of process_survey
SummarizerRun ==
    \/ summarize_question_call
    \/ call_bedrock_run
    \/ summarize_question_return
    \/ sleep_return
    \/ generate_overall_summary_call
    \/ generate_overall_summary_return
    \/ write_output

NextSummarizer == process_survey_call \/ SummarizerRun

SpecSummarizer == Init /\ [][NextSummarizer]_vars

\* process_survey is sequential code: each blocking call returns or raises
\* and the next statement runs
SpecSummarizerFair == SpecSummarizer /\ WF_vars(SummarizerRun)

\* the questions of the grouped frame and of the attempts, in order
GroupedQuestions ==
    [i \in 1..Len(summarizer.grouped) |-> summarizer.grouped[i].Question]
AttemptQuestions ==
    [i \in 1..Len(summarizer.attempts) |-> summarizer.attempts[i].question]

\* the attempts whose summarize_question returned
ReturnedAttempts ==
    SelectSeq(summarizer.attempts, LAMBDA a : a.outcome = "returned")

\* the state part of C29, for a survey with at least one question
C29_RunState ==
    summarizer.grouped # <<>> =>
       /\ Len(summarizer.attempts) <= Len(summarizer.grouped)
       /\ AttemptQuestions = SubSeq(GroupedQuestions, 1, Len(summarizer.attempts))
       /\ [i \in 1..Len(summarizer.question_summaries) |->
              summarizer.question_summaries[i].question]
             = [i \in 1..Len(ReturnedAttempts) |-> ReturnedAttempts[i].question]
       /\ summarizer.pc = "done" =>
             /\ AttemptQuestions = GroupedQuestions
             /\ \A i \in 1..Len(summarizer.attempts) :
                   summarizer.attempts[i].outcome \in {"returned", "raised"}
             /\ summarizer.written
             /\ summarizer.output.question_summaries = summarizer.question_summaries
             /\ summarizer.output.total_questions = Len(ReturnedAttempts)
             /\ summarizer.overall_status \in {"returned", "raised"}
             /\ summarizer.overall_status = "raised" =>
                   summarizer.output.overall_summary = OverallError

\* C29 (as claimed): in a run of process_survey on a survey with at least
\* one question, whatever calls fail: each question is attempted exactly
\* once in grouped order; a question whose summarization raises is skipped
\* and the next ones are still processed; question_summaries holds exactly
\* the successful summaries in that order and total_questions is their
\* number; the run always ends by writing the output, with overall_summary =
\* {"error": ...} when the overall synthesis failed.
C29_BatchRun ==
    /\ []C29_RunState
    /\ (summarizer.pc = "loop") ~> (summarizer.pc = "done" /\ summarizer.written)

\* the run is over because open raised on output_path: every question was
\* attempted once, the summaries and the overall summary were computed, and
\* nothing was written or returned
WriteRaised ==
    /\ summarizer.pc = "error"
    /\ summarizer.exception \in OpenOutcomes \ {"opened"}
    /\ AttemptQuestions = GroupedQuestions
    /\ \A i \in 1..Len(summarizer.attempts) :
          summarizer.attempts[i].outcome \in {"returned", "raised"}
    /\ summarizer.overall_status \in {"returned", "raised"}
    /\ ~summarizer.written
    /\ summarizer.output = IdleSummarizer.output

\* the run is over with the output written: final_output holds the
\* summaries computed, their number, and the overall summary
OutputWritten ==
    /\ summarizer.pc = "done"
    /\ summarizer.written
    /\ summarizer.exception = "none"
    /\ summarizer.output.question_summaries = summarizer.question_summaries
    /\ summarizer.output.total_questions = Len(summarizer.question_summaries)
    /\ summarizer.output.overall_summary = summarizer.overall_summary

\* C29 (amended): in a run of process_survey on a survey with at least one
\* question, whatever calls fail: each question is attempted exactly once in
\* grouped order; a question whose summarization raises is skipped and the
\* next ones are still processed; question_summaries holds exactly the
\* successful summaries in that order and total_questions is their number;
\* the run always ends, either by writing the output, with overall_summary =
\* {"error": ...} when the overall synthesis failed, or, when open raises on
\* output_path, by that exception after every question was attempted and
\* the overall summary was computed, with no output written or returned.
C29_BatchRunEnds ==
    /\ []C29_RunState
    /\ [](summarizer.grouped # <<>> =>
            /\ summarizer.pc = "error" => WriteRaised
            /\ summarizer.pc = "done" => OutputWritten)
    /\ (summarizer.pc = "loop") ~> (OutputWritten \/ WriteRaised)

\* a finished run whose first question raised, whose second question was
\* summarized, and whose overall synthesis failed
C29_Witness ==
    /\ summarizer.pc = "done"
    /\ summarizer.written
    /\ Len(summarizer.attempts) = 2
    /\ summarizer.attempts[1].outcome = "raised"
    /\ summarizer.attempts[2].outcome = "returned"
    /\ Len(summarizer.output.question_summaries) = 1
    /\ summarizer.output.question_summaries[1].question = "Q2"
    /\ summarizer.overall_status = "raised"
    /\ summarizer.output.overall_summary = OverallError

\* C30 (as claimed): the LLM call is made with retry logic: when the Bedrock
\* invocation in _call_bedrock raises, the invocation is attempted again at
\* least once before the failure is propagated to the caller.
C30_RetryBeforeFailure ==
    (summarizer.pc = "bedrock_done" /\ summarizer.bedrock.status = "raised")
        => summarizer.bedrock.invocations >= 2

====
